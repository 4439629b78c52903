---------------------------- MODULE SessionsProofs ----------------------------
(***************************************************************************)
(* Proofs about what the people who sign in have at the server: Accounts,   *)
(* for any users, desk requests and decisions, and Stream, for any streams  *)
(* and channels.                                                            *)
(***************************************************************************)
EXTENDS Sessions, FiniteSetTheorems, SequenceTheorems, TLAPS

-----------------------------------------------------------------------------
(* Accounts.                                                                *)

\* The desk requests that are to take an administrator's role or account away.
Removes(r) == \/ r.pc = "role" /\ r.role # "ADMIN"
              \/ r.pc = "active" /\ ~r.active

\* While nobody has gone since, the count that such a request made still holds:
\* there is another administrator than the one it is about.
CountsHold ==
  \A s \in Slot : (Removes(desk[s]) /\ ~desk[s].stale /\ ~crossed) =>
    \E a \in ActiveAdmins : a # desk[s].user

Deciding(s, u) == desk[s].pc \in {"ban", "status"} /\ desk[s].user = u
Banning(s, u) == desk[s].pc = "ban" /\ desk[s].user = u

\* Of an account the desk and Clerk agree about: events say what Clerk says ...
EventsAreCurrent == \A e \in events : e.user \notin unsure => e.active = ~clerk[e.user].banned
\* ... one request at a time makes its calls, for the last decision ...
OneDecision ==
  \A u \in User \ unsure, s \in Slot :
    /\ Deciding(s, u) => \A t \in Slot : Deciding(t, u) => t = s
    /\ Banning(s, u) => decided[u] = desk[s].active
\* ... and once it has made them Clerk says what was decided ...
ClerkFollows ==
  \A u \in User \ unsure : decided[u] # NULL =>
    (\E s \in Slot : Banning(s, u)) \/ clerk[u].banned = ~decided[u]
\* ... so that a row which says something else will hear of it.
RowFollows ==
  \A u \in User \ unsure : decided[u] # NULL =>
    /\ row[u] # NULL
    /\ \/ row[u].active = decided[u]
       \/ \E e \in events : e.user = u
       \/ \E s \in Slot : Banning(s, u) /\ clerk[u].banned = desk[s].active

DecisionInv == EventsAreCurrent /\ OneDecision /\ ClerkFollows /\ RowFollows
AccountsInv == AccountsTypeOK /\ AnAdminRemains /\ CountsHold /\ DecisionInv

-----------------------------------------------------------------------------
(* Counting administrators.                                                 *)

\* A count above one names another administrator than any given account.
LEMMA AnotherAdmin ==
  ASSUME NEW u \in User, Cardinality(ActiveAdmins) > 1
  PROVE  \E a \in ActiveAdmins : a # u
<1>. SUFFICES ASSUME \A a \in ActiveAdmins : a = u PROVE FALSE
  OBVIOUS
<1>1. ActiveAdmins \subseteq {u}
  OBVIOUS
<1>2. IsFiniteSet({u}) /\ Cardinality({u}) = 1
  BY FS_Singleton
<1>3. Cardinality(ActiveAdmins) \in Nat /\ Cardinality(ActiveAdmins) <= 1
  BY <1>1, <1>2, FS_Subset, FS_CardinalityType
<1>. QED BY <1>3

\* What "That is the only active admin" leaves, when it lets a request through.
LEMMA CountedFacts ==
  ASSUME AccountsInv, NEW u \in User, Counted(u), ~crossed
  PROVE  \E a \in ActiveAdmins : a # u
<1>1. CASE row[u].role = "ADMIN"
  BY <1>1, AnotherAdmin DEF Counted
<1>2. CASE row[u].role # "ADMIN"
  <2>1. u \notin ActiveAdmins
    BY <1>2 DEF ActiveAdmins, IsActiveAdmin
  <2>2. ActiveAdmins # {}
    BY DEF AccountsInv, AnAdminRemains
  <2>. QED BY <2>1, <2>2
<1>. QED BY <1>1, <1>2

\* A step that removes nobody and makes no request of that kind.
LEMMA AdminsStay ==
  ASSUME AccountsInv, ActiveAdmins \subseteq ActiveAdmins', crossed' = crossed,
         \A s \in Slot : Removes(desk'[s]) => desk'[s] = desk[s]
  PROVE  AnAdminRemains' /\ CountsHold'
<1>1. AnAdminRemains'
  BY DEF AccountsInv, AnAdminRemains
<1>2. CountsHold'
  <2>. SUFFICES ASSUME NEW s \in Slot, Removes(desk'[s]), ~desk'[s].stale, ~crossed'
                PROVE  \E a \in ActiveAdmins' : a # desk'[s].user
    BY DEF CountsHold
  <2>1. desk'[s] = desk[s]
    OBVIOUS
  <2>. QED BY <2>1 DEF AccountsInv, CountsHold
<1>. QED BY <1>1, <1>2

\* A step that leaves the table alone, or only ever raises a role.
LEMMA RowsStay ==
  ASSUME \A u \in User : IsActiveAdmin(u) => IsActiveAdmin(u)'
  PROVE  ActiveAdmins \subseteq ActiveAdmins'
BY DEF ActiveAdmins

-----------------------------------------------------------------------------
(* Decisions.                                                               *)

\* A step that decides nothing, bans nobody and leaves the active flags alone:
\* Clerk may announce once more what it says anyway, and a request may end
\* that has no ban to make, or whose account it leaves in doubt.
LEMMA AgreementStays ==
  ASSUME AccountsInv, decided' = decided, unsure \subseteq unsure', events \subseteq events',
         \A u \in User : clerk'[u].banned = clerk[u].banned,
         \A u \in User : row[u] # NULL => row'[u] # NULL /\ row'[u].active = row[u].active,
         \A e \in events' : e \in events \/ (e.user \in User /\ e.active = ~clerk[e.user].banned)
                                        \/ e.user \in unsure',
         \A s \in Slot, u \in User \ unsure' :
           /\ Deciding(s, u)' => Deciding(s, u)
           /\ Banning(s, u)' => Banning(s, u) /\ desk'[s] = desk[s]
           /\ Banning(s, u) => \/ desk'[s] = desk[s]
                               \/ clerk[u].banned = ~desk[s].active
  PROVE  DecisionInv'
<1>1. EventsAreCurrent'
  <2>. SUFFICES ASSUME NEW e \in events', e.user \notin unsure'
                PROVE  e.active = ~clerk'[e.user].banned
    BY DEF EventsAreCurrent
  <2>1. CASE e \in events
    <3>1. e.user \in User /\ e.user \notin unsure
      BY <2>1 DEF AccountsInv, AccountsTypeOK, Event
    <3>2. e.active = ~clerk[e.user].banned
      BY <2>1, <3>1 DEF AccountsInv, DecisionInv, EventsAreCurrent
    <3>. QED BY <3>1, <3>2
  <2>2. CASE e.user \in User /\ e.active = ~clerk[e.user].banned
    BY <2>2
  <2>. QED BY <2>1, <2>2
<1>2. OneDecision'
  <2>. SUFFICES ASSUME NEW u \in User \ unsure', NEW s \in Slot
                PROVE  /\ Deciding(s, u)' => \A t \in Slot : Deciding(t, u)' => t = s
                       /\ Banning(s, u)' => decided'[u] = desk'[s].active
    BY DEF OneDecision
  <2>1. u \in User \ unsure
    OBVIOUS
  <2>. QED BY <2>1 DEF AccountsInv, DecisionInv, OneDecision
<1>. SUFFICES ASSUME NEW u \in User \ unsure', decided'[u] # NULL
              PROVE  /\ (\E s \in Slot : Banning(s, u)') \/ clerk'[u].banned = ~decided'[u]
                     /\ row'[u] # NULL
                     /\ \/ row'[u].active = decided'[u]
                        \/ \E e \in events' : e.user = u
                        \/ \E s \in Slot : Banning(s, u)' /\ clerk'[u].banned = desk'[s].active
  BY <1>1, <1>2 DEF DecisionInv, ClerkFollows, RowFollows
<1>3. u \in User \ unsure /\ decided[u] # NULL
  OBVIOUS
<1>4. \A s \in Slot : Banning(s, u) => decided[u] = desk[s].active
  BY <1>3 DEF AccountsInv, DecisionInv, OneDecision
<1>5. (\E s \in Slot : Banning(s, u)') \/ clerk'[u].banned = ~decided'[u]
  <2>1. (\E s \in Slot : Banning(s, u)) \/ clerk[u].banned = ~decided[u]
    BY <1>3 DEF AccountsInv, DecisionInv, ClerkFollows
  <2>2. ASSUME NEW s \in Slot, Banning(s, u) PROVE Banning(s, u)' \/ clerk'[u].banned = ~decided'[u]
    <3>1. CASE desk'[s] = desk[s]
      BY <3>1, <2>2 DEF Banning
    <3>2. CASE clerk[u].banned = ~desk[s].active
      BY <3>2, <2>2, <1>4
    <3>. QED BY <2>2, <3>1, <3>2
  <2>. QED BY <2>1, <2>2
<1>6. row'[u] # NULL /\ row'[u].active = row[u].active
  BY <1>3 DEF AccountsInv, DecisionInv, RowFollows
<1>7. \/ row'[u].active = decided'[u]
      \/ \E e \in events' : e.user = u
      \/ \E s \in Slot : Banning(s, u)' /\ clerk'[u].banned = desk'[s].active
  <2>1. \/ row[u].active = decided[u]
        \/ \E e \in events : e.user = u
        \/ \E s \in Slot : Banning(s, u) /\ clerk[u].banned = desk[s].active
    BY <1>3 DEF AccountsInv, DecisionInv, RowFollows
  <2>2. ASSUME NEW s \in Slot, Banning(s, u), clerk[u].banned = desk[s].active
        PROVE  Banning(s, u)' /\ clerk'[u].banned = desk'[s].active
    <3>1. desk[s].active \in BOOLEAN
      BY <2>2 DEF AccountsInv, AccountsTypeOK, DeskOp, Idle, Banning
    <3>2. desk'[s] = desk[s]
      BY <2>2, <3>1
    <3>. QED BY <2>2, <3>2 DEF Banning
  <2>. QED BY <1>6, <2>1, <2>2
<1>. QED BY <1>5, <1>6, <1>7

-----------------------------------------------------------------------------
(* Steps of Clerk and of visits.                                            *)

LEMMA AnnounceFacts ==
  ASSUME AccountsTypeOK, NEW u \in User, NEW active \in BOOLEAN, Announce(u, active)
  PROVE  /\ events' \subseteq Event /\ unsure' \subseteq User /\ unsure \subseteq unsure'
         /\ events \subseteq events'
         /\ \A e \in events' : e \in events \/ (e.user = u /\ e.active = active)
BY DEF Announce, AccountsTypeOK, Event

\* A role written at Clerk is announced with the ban as it is.
LEMMA PutRoleFacts ==
  ASSUME AccountsTypeOK, NEW u \in User, NEW role \in Roles, PutRole(u, role)
  PROVE  /\ clerk' \in [User -> [banned : BOOLEAN, role : Roles]]
         /\ \A v \in User : clerk'[v].banned = clerk[v].banned
         /\ events' \subseteq Event /\ unsure' \subseteq User /\ unsure \subseteq unsure'
         /\ events \subseteq events'
         /\ \A e \in events' : e \in events \/ (e.user \in User /\ e.active = ~clerk[e.user].banned)
<1>1. Announce(u, ~clerk[u].banned) /\ clerk' = [clerk EXCEPT ![u].role = role]
  BY DEF PutRole
<1>2. clerk[u].banned \in BOOLEAN /\ (~clerk[u].banned) \in BOOLEAN
  BY DEF AccountsTypeOK
<1>3. /\ clerk' \in [User -> [banned : BOOLEAN, role : Roles]]
      /\ \A v \in User : clerk'[v].banned = clerk[v].banned
  BY <1>1 DEF AccountsTypeOK
<1>. QED BY <1>1, <1>2, <1>3, AnnounceFacts

\* The table as it was, and requests for which nothing changes.
LEMMA DeskStays ==
  ASSUME UNCHANGED <<row, desk, crossed>>, AccountsInv
  PROVE  /\ AnAdminRemains' /\ CountsHold'
         /\ \A u \in User : row[u] # NULL => row'[u] # NULL /\ row'[u].active = row[u].active
         /\ \A s \in Slot, u \in User :
              /\ Deciding(s, u)' => Deciding(s, u)
              /\ Banning(s, u)' => Banning(s, u) /\ desk'[s] = desk[s]
              /\ Banning(s, u) => desk'[s] = desk[s]
<1>1. ActiveAdmins' = ActiveAdmins
  BY DEF ActiveAdmins, IsActiveAdmin
<1>2. AnAdminRemains' /\ CountsHold'
  BY <1>1, AdminsStay
<1>. QED BY <1>2 DEF Deciding, Banning

LEMMA EditProfileKeeps ==
  ASSUME AccountsInv, NEW u \in User, EditProfile(u)
  PROVE  AccountsInv'
<1>1. (~clerk[u].banned) \in BOOLEAN /\ Announce(u, ~clerk[u].banned)
  BY DEF AccountsInv, AccountsTypeOK, EditProfile
<1>2. UNCHANGED <<row, clerk, envAdmins, desk, visit, decisions, decided, crossed>>
  BY DEF EditProfile
<1>3. /\ events' \subseteq Event /\ unsure' \subseteq User /\ unsure \subseteq unsure'
      /\ events \subseteq events'
      /\ \A e \in events' : e \in events \/ (e.user \in User /\ e.active = ~clerk[e.user].banned)
  BY <1>1, AnnounceFacts DEF AccountsInv
<1>4. AccountsTypeOK'
  BY <1>2, <1>3 DEF AccountsInv, AccountsTypeOK
<1>5. DecisionInv'
  BY <1>2, <1>3, DeskStays, AgreementStays
<1>. QED BY <1>2, <1>4, <1>5, DeskStays DEF AccountsInv

LEMMA RepairPutKeeps ==
  ASSUME AccountsInv, NEW u \in User, RepairPut(u)
  PROVE  AccountsInv'
<1>1. visit[u].role \in Roles /\ PutRole(u, visit[u].role)
  BY DEF AccountsInv, AccountsTypeOK, RepairPut, VisitOp, Idle
<1>2. /\ UNCHANGED <<row, envAdmins, desk, decisions, decided, crossed>>
      /\ visit' = [visit EXCEPT ![u] = Idle]
  BY DEF RepairPut
<1>3. /\ events' \subseteq Event /\ unsure' \subseteq User /\ unsure \subseteq unsure'
      /\ events \subseteq events'
      /\ clerk' \in [User -> [banned : BOOLEAN, role : Roles]]
      /\ \A v \in User : clerk'[v].banned = clerk[v].banned
      /\ \A e \in events' : e \in events \/ (e.user \in User /\ e.active = ~clerk[e.user].banned)
  BY <1>1, PutRoleFacts DEF AccountsInv
<1>4. AccountsTypeOK'
  BY <1>2, <1>3 DEF AccountsInv, AccountsTypeOK
<1>5. DecisionInv'
  BY <1>2, <1>3, DeskStays, AgreementStays
<1>. QED BY <1>2, <1>4, <1>5, DeskStays DEF AccountsInv

\* Nothing but a visit, or the role that a visit raises, changes.
LEMMA VisitsKeep ==
  ASSUME AccountsInv, UNCHANGED <<clerk, events, envAdmins, desk, decisions, decided, unsure, crossed>>,
         visit' \in [User -> VisitOp \cup {Idle}], row' \in [User -> UserRow \cup {NULL}],
         \A u \in User : row[u] # NULL =>
           row'[u] # NULL /\ row'[u].active = row[u].active /\ row'[u].role \in {row[u].role, "ADMIN"}
  PROVE  AccountsInv'
<1>1. \A s \in Slot : desk[s].pc \notin {"idle", "entered"} => desk[s].user \in User
  BY DEF AccountsInv, AccountsTypeOK, DeskOp, Idle
<1>2. AccountsTypeOK'
  BY <1>1 DEF AccountsInv, AccountsTypeOK
<1>3. \A u \in User : IsActiveAdmin(u) => IsActiveAdmin(u)'
  BY DEF IsActiveAdmin
<1>4. AnAdminRemains' /\ CountsHold'
  BY <1>3, RowsStay, AdminsStay
<1>5. DecisionInv'
  BY AgreementStays DEF Deciding, Banning
<1>. QED BY <1>2, <1>4, <1>5 DEF AccountsInv

LEMMA VisitKeeps ==
  ASSUME AccountsInv, NEW u \in User, Visit(u)
  PROVE  AccountsInv'
<1>. DEFINE role == IF u \in envAdmins THEN "ADMIN" ELSE row[u].role
            new == [row[u] EXCEPT !.role = role]
<1>1. row[u] \in UserRow
  BY DEF Visit, AccountsInv, AccountsTypeOK
<1>2. new \in UserRow /\ new.active = row[u].active /\ new.role \in {row[u].role, "ADMIN"}
  BY <1>1 DEF UserRow, Roles
<1>3. row' = [row EXCEPT ![u] = new]
  BY DEF Visit
<1>. HIDE DEF new
<1>4. row' \in [User -> UserRow \cup {NULL}] /\ row'[u].role \in Roles /\ row'[u] = new
  BY <1>2, <1>3 DEF AccountsInv, AccountsTypeOK, UserRow
<1>5. Repair(row'[u].role) \in VisitOp
  BY <1>4 DEF Repair, VisitOp
<1>6. visit' \in [User -> VisitOp \cup {Idle}]
  BY <1>5 DEF Visit, AccountsInv, AccountsTypeOK
<1>7. \A v \in User : row[v] # NULL =>
        row'[v] # NULL /\ row'[v].active = row[v].active /\ row'[v].role \in {row[v].role, "ADMIN"}
  BY <1>2, <1>3, <1>4, NullIsNoRow DEF AccountsInv, AccountsTypeOK
<1>. QED BY <1>4, <1>6, <1>7, VisitsKeep DEF Visit

LEMMA FirstVisitKeeps ==
  ASSUME AccountsInv, NEW u \in User, FirstVisit(u)
  PROVE  AccountsInv'
<1>1. [pc |-> "first", role |-> clerk[u].role] \in VisitOp
  BY DEF AccountsInv, AccountsTypeOK, VisitOp
<1>2. visit' \in [User -> VisitOp \cup {Idle}] /\ row' = row
  BY <1>1 DEF AccountsInv, AccountsTypeOK, FirstVisit, Tables
<1>. QED BY <1>2, VisitsKeep DEF FirstVisit, Tables, AccountsInv, AccountsTypeOK

LEMMA UpsertKeeps ==
  ASSUME AccountsInv, NEW u \in User, Upsert(u)
  PROVE  AccountsInv'
<1>. DEFINE role == IF u \in envAdmins THEN "ADMIN" ELSE visit[u].role
            new == IF row[u] = NULL THEN [role |-> role, active |-> TRUE]
                   ELSE IF role = "ADMIN" THEN [row[u] EXCEPT !.role = "ADMIN"] ELSE row[u]
<1>1. role \in Roles /\ row[u] \in UserRow \cup {NULL}
  BY DEF Upsert, AccountsInv, AccountsTypeOK, VisitOp, Idle, Roles
<1>2. /\ new \in UserRow
      /\ row[u] # NULL => new.active = row[u].active /\ new.role \in {row[u].role, "ADMIN"}
  BY <1>1 DEF UserRow, Roles
<1>3. row' = [row EXCEPT ![u] = new]
  BY DEF Upsert
<1>. HIDE DEF new
<1>4. row' \in [User -> UserRow \cup {NULL}] /\ row'[u] = new
  BY <1>2, <1>3 DEF AccountsInv, AccountsTypeOK
<1>5. visit' \in [User -> VisitOp \cup {Idle}]
  BY DEF Upsert, AccountsInv, AccountsTypeOK
<1>6. \A v \in User : row[v] # NULL =>
        row'[v] # NULL /\ row'[v].active = row[v].active /\ row'[v].role \in {row[v].role, "ADMIN"}
  BY <1>2, <1>3, <1>4, NullIsNoRow DEF AccountsInv, AccountsTypeOK
<1>. QED BY <1>4, <1>5, <1>6, VisitsKeep DEF Upsert

LEMMA RepairGetKeeps ==
  ASSUME AccountsInv, NEW u \in User, RepairGet(u)
  PROVE  AccountsInv'
<1>1. visit[u] \in VisitOp
  BY DEF AccountsInv, AccountsTypeOK, RepairGet, Idle
<1>2. [visit[u] EXCEPT !.pc = "put"] \in VisitOp
  BY <1>1 DEF VisitOp
<1>3. visit' \in [User -> VisitOp \cup {Idle}] /\ row' = row
  BY <1>2 DEF AccountsInv, AccountsTypeOK, RepairGet, Tables
<1>. QED BY <1>3, VisitsKeep DEF RepairGet, Tables, AccountsInv, AccountsTypeOK

LEMMA LeaveVisitKeeps ==
  ASSUME AccountsInv, NEW u \in User, LeaveVisit(u)
  PROVE  AccountsInv'
<1>1. visit' \in [User -> VisitOp \cup {Idle}] /\ row' = row
  BY DEF AccountsInv, AccountsTypeOK, LeaveVisit, Tables
<1>. QED BY <1>1, VisitsKeep DEF LeaveVisit, Tables, AccountsInv, AccountsTypeOK

LEMMA BanAtClerkKeeps ==
  ASSUME AccountsInv, NEW u \in User, BanAtClerk(u)
  PROVE  AccountsInv'
<1>1. /\ clerk' = [clerk EXCEPT ![u].banned = ~clerk[u].banned]
      /\ events' = events \cup {[user |-> u, active |-> clerk[u].banned]}
      /\ unsure' = unsure \cup {u} /\ decisions' = decisions + 1 /\ decisions < MaxDecision
      /\ UNCHANGED <<row, envAdmins, desk, visit, decided, crossed>>
  BY DEF BanAtClerk
<1>2. /\ clerk' \in [User -> [banned : BOOLEAN, role : Roles]]
      /\ \A v \in User : v # u => clerk'[v] = clerk[v]
      /\ [user |-> u, active |-> clerk[u].banned] \in Event
  BY <1>1 DEF AccountsInv, AccountsTypeOK, Event
<1>3. AccountsTypeOK'
  BY <1>1, <1>2, DecisionBound DEF AccountsInv, AccountsTypeOK
<1>4. AnAdminRemains' /\ CountsHold'
  BY <1>1, DeskStays
<1>5. \A v \in User \ unsure' : v \in User \ unsure /\ v # u /\ clerk'[v] = clerk[v]
  BY <1>1, <1>2
<1>6. EventsAreCurrent'
  BY <1>1, <1>5 DEF AccountsInv, AccountsTypeOK, Event, DecisionInv, EventsAreCurrent
<1>7. OneDecision'
  BY <1>1, <1>5 DEF AccountsInv, DecisionInv, OneDecision, Deciding, Banning
<1>8. ClerkFollows'
  BY <1>1, <1>5 DEF AccountsInv, DecisionInv, ClerkFollows, Banning
<1>9. RowFollows'
  BY <1>1, <1>5 DEF AccountsInv, DecisionInv, RowFollows, Banning
<1>. QED BY <1>3, <1>4, <1>6, <1>7, <1>8, <1>9 DEF AccountsInv, DecisionInv

LEMMA WebhookKeeps ==
  ASSUME AccountsInv, NEW e \in events, Webhook(e)
  PROVE  AccountsInv'
<1>. DEFINE u == e.user
            new == IF row[u] = NULL THEN [role |-> "STUDENT", active |-> e.active]
                   ELSE [row[u] EXCEPT !.active = e.active]
<1>1. u \in User /\ e.active \in BOOLEAN /\ row[u] \in UserRow \cup {NULL}
  BY DEF AccountsInv, AccountsTypeOK, Event
<1>2. /\ new \in UserRow /\ new.active = e.active
      /\ row[u] # NULL => new.role = row[u].role
  BY <1>1 DEF UserRow, Roles
<1>3. /\ row' = [row EXCEPT ![u] = new]
      /\ events' \in {events, events \ {e}}
      /\ crossed' = (crossed \/ (IsActiveAdmin(u) /\ ~e.active))
      /\ UNCHANGED <<clerk, envAdmins, desk, visit, decisions, decided, unsure>>
  BY DEF Webhook, ActiveAfter
<1>. HIDE DEF new
<1>4. /\ row' \in [User -> UserRow \cup {NULL}] /\ row'[u] = new /\ new # NULL
      /\ \A v \in User : v # u => row'[v] = row[v]
  BY <1>1, <1>2, <1>3, NullIsNoRow DEF AccountsInv, AccountsTypeOK
<1>5. AccountsTypeOK'
  <2>1. \A s \in Slot : desk'[s].pc \notin {"idle", "entered"} => row'[desk'[s].user] # NULL
    BY <1>3, <1>4 DEF AccountsInv, AccountsTypeOK, DeskOp, Idle
  <2>2. crossed' \in BOOLEAN
    BY <1>3 DEF AccountsInv, AccountsTypeOK
  <2>. QED BY <1>3, <1>4, <2>1, <2>2 DEF AccountsInv, AccountsTypeOK
<1>6. AnAdminRemains' /\ CountsHold'
  <2>1. CASE crossed'
    BY <2>1 DEF AnAdminRemains, CountsHold
  <2>2. CASE ~crossed'
    <3>1. crossed' = crossed
      BY <2>2, <1>3 DEF AccountsInv, AccountsTypeOK
    <3>2. \A v \in User : IsActiveAdmin(v) => IsActiveAdmin(v)'
      BY <2>2, <1>1, <1>2, <1>3, <1>4 DEF IsActiveAdmin
    <3>. QED BY <1>3, <3>1, <3>2, RowsStay, AdminsStay
  <2>. QED BY <2>1, <2>2
<1>7. EventsAreCurrent' /\ OneDecision' /\ ClerkFollows'
  BY <1>3 DEF AccountsInv, DecisionInv, EventsAreCurrent, OneDecision, ClerkFollows, Deciding, Banning
<1>8. RowFollows'
  <2>. SUFFICES ASSUME NEW v \in User \ unsure, decided[v] # NULL
                PROVE  /\ row'[v] # NULL
                       /\ \/ row'[v].active = decided[v]
                          \/ \E f \in events' : f.user = v
                          \/ \E s \in Slot : Banning(s, v) /\ clerk[v].banned = desk[s].active
    BY <1>3 DEF RowFollows, Banning
  <2>1. CASE v # u
    BY <2>1, <1>3, <1>4 DEF AccountsInv, DecisionInv, RowFollows
  <2>2. CASE v = u
    <3>1. row'[v].active = ~clerk[v].banned /\ row'[v] # NULL
      BY <2>2, <1>2, <1>4 DEF AccountsInv, DecisionInv, EventsAreCurrent
    <3>2. clerk[v].banned \in BOOLEAN /\ decided[v] \in BOOLEAN
      BY DEF AccountsInv, AccountsTypeOK
    <3>3. CASE clerk[v].banned = ~decided[v]
      BY <3>1, <3>2, <3>3
    <3>4. ASSUME NEW s \in Slot, Banning(s, v)
          PROVE  \/ row'[v].active = decided[v]
                 \/ clerk[v].banned = desk[s].active
      <4>1. decided[v] = desk[s].active
        BY <3>4 DEF AccountsInv, DecisionInv, OneDecision
      <4>. QED BY <3>1, <3>2, <4>1
    <3>. QED BY <3>1, <3>3, <3>4 DEF AccountsInv, DecisionInv, ClerkFollows
  <2>. QED BY <2>1, <2>2
<1>. QED BY <1>5, <1>6, <1>7, <1>8 DEF AccountsInv, DecisionInv

-----------------------------------------------------------------------------
(* Steps of the desk.                                                       *)

\* A request that moves on, decides nothing and asks for nobody's removal.
LEMMA DeskMoves ==
  ASSUME AccountsInv, NEW s \in Slot, NEW new \in DeskOp \cup {Idle},
         desk' = [desk EXCEPT ![s] = new], ~Removes(new),
         new.pc \notin {"idle", "entered"} => row[new.user] # NULL,
         UNCHANGED <<row, decided, crossed, envAdmins, visit>>, decisions' \in 0..MaxDecision
  PROVE  /\ desk' \in [Slot -> DeskOp \cup {Idle}]
         /\ \A t \in Slot : t # s => desk'[t] = desk[t]
         /\ desk'[s] = new
         /\ \A t \in Slot : desk'[t].pc \notin {"idle", "entered"} => row'[desk'[t].user] # NULL
         /\ AnAdminRemains' /\ CountsHold'
<1>1. /\ desk' \in [Slot -> DeskOp \cup {Idle}] /\ desk'[s] = new
      /\ \A t \in Slot : t # s => desk'[t] = desk[t]
  BY DEF AccountsInv, AccountsTypeOK
<1>2. \A t \in Slot : desk'[t].pc \notin {"idle", "entered"} => row'[desk'[t].user] # NULL
  BY <1>1 DEF AccountsInv, AccountsTypeOK
<1>3. ActiveAdmins' = ActiveAdmins
  BY DEF ActiveAdmins, IsActiveAdmin
<1>4. AnAdminRemains' /\ CountsHold'
  BY <1>1, <1>3, AdminsStay
<1>. QED BY <1>1, <1>2, <1>4

\* The same, where Clerk hears nothing and the request neither had a ban to make
\* nor gets one.
LEMMA DeskWalks ==
  ASSUME AccountsInv, NEW s \in Slot, NEW new \in DeskOp \cup {Idle},
         desk' = [desk EXCEPT ![s] = new], ~Removes(new),
         new.pc \notin {"idle", "entered"} => row[new.user] # NULL,
         new.pc \notin {"ban", "status"}, desk[s].pc # "ban" \/ desk[s].user \in unsure',
         unsure \subseteq unsure', unsure' \subseteq User, events \subseteq events', events' \subseteq Event,
         \A e \in events' : e \in events \/ (e.user \in User /\ e.active = ~clerk[e.user].banned),
         clerk' \in [User -> [banned : BOOLEAN, role : Roles]],
         \A u \in User : clerk'[u].banned = clerk[u].banned,
         UNCHANGED <<row, decided, crossed, envAdmins, visit>>, decisions' \in 0..MaxDecision
  PROVE  AccountsInv'
<1>1. /\ desk' \in [Slot -> DeskOp \cup {Idle}] /\ desk'[s] = new
      /\ \A t \in Slot : t # s => desk'[t] = desk[t]
      /\ \A t \in Slot : desk'[t].pc \notin {"idle", "entered"} => row'[desk'[t].user] # NULL
      /\ AnAdminRemains' /\ CountsHold'
  BY DeskMoves
<1>2. AccountsTypeOK'
  BY <1>1 DEF AccountsInv, AccountsTypeOK
<1>3. ASSUME NEW t \in Slot, NEW u \in User \ unsure'
      PROVE  /\ Deciding(t, u)' => Deciding(t, u)
             /\ Banning(t, u)' => Banning(t, u) /\ desk'[t] = desk[t]
             /\ Banning(t, u) => desk'[t] = desk[t]
  BY <1>1 DEF Deciding, Banning
<1>4. DecisionInv'
  BY <1>3, AgreementStays
<1>. QED BY <1>1, <1>2, <1>4 DEF AccountsInv

LEMMA EnterKeeps ==
  ASSUME AccountsInv, NEW s \in Slot, NEW u \in User, Enter(s, u)
  PROVE  AccountsInv'
<1>. DEFINE new == [pc |-> "entered", actor |-> u]
<1>1. new \in DeskOp \cup {Idle} /\ ~Removes(new) /\ new.pc = "entered"
  BY DEF DeskOp, Removes
<1>2. /\ desk' = [desk EXCEPT ![s] = new] /\ desk[s].pc = "idle" /\ decisions' \in 0..MaxDecision
      /\ UNCHANGED <<row, clerk, events, decided, crossed, envAdmins, visit, unsure>>
  BY DecisionBound DEF Enter, Tables, Idle, AccountsInv, AccountsTypeOK
<1>. HIDE DEF new
<1>. QED BY <1>1, <1>2, DeskWalks DEF AccountsInv, AccountsTypeOK

LEMMA LeaveDeskKeeps ==
  ASSUME AccountsInv, NEW s \in Slot, LeaveDesk(s)
  PROVE  AccountsInv'
<1>1. Idle \in DeskOp \cup {Idle} /\ ~Removes(Idle) /\ Idle.pc = "idle"
  BY DEF Idle, Removes
<1>2. desk[s] \in DeskOp
  BY DEF LeaveDesk, AccountsInv, AccountsTypeOK
<1>3. desk[s].pc = "ban" => desk[s].user \in User
  BY <1>2 DEF DeskOp
<1>4. /\ desk' = [desk EXCEPT ![s] = Idle]
      /\ UNCHANGED <<row, clerk, events, decided, crossed, envAdmins, visit, decisions>>
      /\ unsure' = IF desk[s].pc = "ban" THEN unsure \cup {desk[s].user} ELSE unsure
  BY DEF LeaveDesk, Tables
<1>5. /\ unsure \subseteq unsure' /\ unsure' \subseteq User
      /\ desk[s].pc # "ban" \/ desk[s].user \in unsure'
  BY <1>3, <1>4 DEF AccountsInv, AccountsTypeOK
<1>. QED BY <1>1, <1>4, <1>5, DeskWalks DEF AccountsInv, AccountsTypeOK

LEMMA DeskGetKeeps ==
  ASSUME AccountsInv, NEW s \in Slot, DeskGet(s)
  PROVE  AccountsInv'
<1>. DEFINE new == IF clerk[desk[s].user].role = desk[s].role THEN Idle ELSE [desk[s] EXCEPT !.pc = "put"]
<1>1. desk[s] \in [pc : {"get", "put", "status"}, user : User, role : Roles] /\ row[desk[s].user] # NULL
  BY DEF DeskGet, AccountsInv, AccountsTypeOK, DeskOp, Idle
<1>2. /\ new \in DeskOp \cup {Idle} /\ ~Removes(new) /\ new.pc \notin {"ban", "status"}
      /\ new.pc \notin {"idle", "entered"} => row[new.user] # NULL
  BY <1>1 DEF DeskOp, Idle, Removes
<1>3. /\ desk' = [desk EXCEPT ![s] = new] /\ desk[s].pc = "get"
      /\ UNCHANGED <<row, clerk, events, decided, crossed, envAdmins, visit, decisions, unsure>>
  BY DEF DeskGet, Tables
<1>. HIDE DEF new
<1>. QED BY <1>2, <1>3, DeskWalks DEF AccountsInv, AccountsTypeOK

\* The cached role is written and the request is over.
LEMMA DeskWritesRole ==
  ASSUME AccountsInv, NEW s \in Slot, DeskPut(s) \/ PutStatus(s)
  PROVE  AccountsInv'
<1>1. desk[s].user \in User /\ desk[s].role \in Roles /\ desk[s].pc # "ban"
  BY DEF DeskPut, PutStatus, AccountsInv, AccountsTypeOK, DeskOp, Idle
<1>2. /\ PutRole(desk[s].user, desk[s].role) /\ desk' = [desk EXCEPT ![s] = Idle]
      /\ UNCHANGED <<row, envAdmins, visit, decisions, decided, crossed>>
  BY DEF DeskPut, PutStatus
<1>3. Idle \in DeskOp \cup {Idle} /\ ~Removes(Idle) /\ Idle.pc = "idle"
  BY DEF Idle, Removes
<1>4. /\ events' \subseteq Event /\ unsure' \subseteq User /\ unsure \subseteq unsure'
      /\ events \subseteq events'
      /\ clerk' \in [User -> [banned : BOOLEAN, role : Roles]]
      /\ \A v \in User : clerk'[v].banned = clerk[v].banned
      /\ \A e \in events' : e \in events \/ (e.user \in User /\ e.active = ~clerk[e.user].banned)
  BY <1>1, <1>2, PutRoleFacts DEF AccountsInv
<1>5. decisions' \in 0..MaxDecision
  BY <1>2 DEF AccountsInv, AccountsTypeOK
<1>. QED BY <1>1, <1>2, <1>3, <1>4, <1>5, DeskWalks

\* A request is put to the table: one that removes somebody has counted, or is stale.
LEMMA AskingKeeps ==
  ASSUME AccountsInv, NEW s \in Slot, NEW new \in DeskOp,
         desk' = [desk EXCEPT ![s] = new], desk[s].pc = "entered", new.pc \in {"role", "active"},
         row[new.user] # NULL,
         (Removes(new) /\ ~new.stale /\ ~crossed) => \E a \in ActiveAdmins : a # new.user,
         UNCHANGED <<Tables, envAdmins, visit, decisions, decided, unsure, crossed>>
  PROVE  AccountsInv'
<1>1. /\ desk' \in [Slot -> DeskOp \cup {Idle}] /\ desk'[s] = new
      /\ \A t \in Slot : t # s => desk'[t] = desk[t]
  BY DEF AccountsInv, AccountsTypeOK
<1>2. AccountsTypeOK'
  BY <1>1 DEF AccountsInv, AccountsTypeOK, Tables
<1>3. ActiveAdmins' = ActiveAdmins
  BY DEF ActiveAdmins, IsActiveAdmin, Tables
<1>4. AnAdminRemains'
  BY <1>3 DEF AccountsInv, AnAdminRemains
<1>5. CountsHold'
  BY <1>1, <1>3 DEF AccountsInv, CountsHold
<1>6. ASSUME NEW t \in Slot, NEW u \in User
      PROVE  /\ Deciding(t, u)' => Deciding(t, u)
             /\ Banning(t, u)' => Banning(t, u) /\ desk'[t] = desk[t]
             /\ Banning(t, u) => desk'[t] = desk[t]
  BY <1>1 DEF Deciding, Banning
<1>7. DecisionInv'
  BY <1>6, AgreementStays DEF Tables
<1>. QED BY <1>2, <1>4, <1>5, <1>7 DEF AccountsInv

LEMMA AskForRoleKeeps ==
  ASSUME AccountsInv, NEW s \in Slot, NEW u \in User, NEW role \in Roles, AskForRole(s, u, role)
  PROVE  AccountsInv'
<1>. DEFINE new == [pc |-> "role", user |-> u, role |-> role, stale |-> FALSE]
<1>1. new \in DeskOp
  BY DEF DeskOp
<1>2. (Removes(new) /\ ~crossed) => \E a \in ActiveAdmins : a # u
  BY CountedFacts DEF AskForRole, Removes
<1>3. /\ desk' = [desk EXCEPT ![s] = new] /\ desk[s].pc = "entered" /\ row[u] # NULL
      /\ UNCHANGED <<Tables, envAdmins, visit, decisions, decided, unsure, crossed>>
  BY DEF AskForRole
<1>4. new.pc = "role" /\ new.user = u
  OBVIOUS
<1>. HIDE DEF new
<1>. QED BY <1>1, <1>2, <1>3, <1>4, AskingKeeps

LEMMA AskForActiveKeeps ==
  ASSUME AccountsInv, NEW s \in Slot, NEW u \in User, NEW active \in BOOLEAN, NEW counts \in BOOLEAN,
         AskForActive(s, u, active, counts)
  PROVE  AccountsInv'
<1>. DEFINE new == [pc |-> "active", user |-> u, active |-> active, role |-> row[u].role, stale |-> ~counts]
<1>1. row[u].role \in Roles /\ row[u] # NULL /\ (~counts) \in BOOLEAN
  BY DEF AskForActive, AccountsInv, AccountsTypeOK, UserRow
<1>2. new \in DeskOp
  BY <1>1 DEF DeskOp
<1>3. (Removes(new) /\ ~new.stale /\ ~crossed) => \E a \in ActiveAdmins : a # u
  BY CountedFacts DEF AskForActive, Removes
<1>4. /\ desk' = [desk EXCEPT ![s] = new] /\ desk[s].pc = "entered"
      /\ UNCHANGED <<Tables, envAdmins, visit, decisions, decided, unsure, crossed>>
  BY DEF AskForActive
<1>5. new.pc = "active" /\ new.user = u
  OBVIOUS
<1>. HIDE DEF new
<1>. QED BY <1>1, <1>2, <1>3, <1>4, <1>5, AskingKeeps

\* A write by request s: whoever else counted this administrator is out of date, and
\* the count of s itself still held.
LEMMA LandFacts ==
  ASSUME AccountsInv, NEW s \in Slot, NEW u \in User, row[u] # NULL, NEW account \in UserRow,
         NEW next \in DeskOp, Land(s, u, account, next),
         desk[s].user = u, next.user = u, ~Removes(next), next.pc \notin {"idle", "entered"},
         (IsActiveAdmin(u) /\ ~(account.active /\ account.role = "ADMIN")) => Removes(desk[s])
  PROVE  /\ row' \in [User -> UserRow \cup {NULL}] /\ row'[u] = account
         /\ \A v \in User : v # u => row'[v] = row[v]
         /\ desk' \in [Slot -> DeskOp \cup {Idle}] /\ desk'[s] = next
         /\ \A t \in Slot : t # s =>
              /\ desk'[t].pc = desk[t].pc
              /\ desk[t].pc \notin {"role", "active"} => desk'[t] = desk[t]
         /\ \A t \in Slot : desk'[t].pc \notin {"idle", "entered"} => row'[desk'[t].user] # NULL
         /\ crossed' \in BOOLEAN
         /\ AnAdminRemains' /\ CountsHold'
<1>. DEFINE removes == IsActiveAdmin(u) /\ ~(account.active /\ account.role = "ADMIN")
<1>0. /\ row' = [row EXCEPT ![u] = account]
      /\ desk' = [(IF removes THEN Outdated(s) ELSE desk) EXCEPT ![s] = next]
      /\ crossed' = (crossed \/ (removes /\ desk[s].stale))
  BY DEF Land
<1>1. /\ row' \in [User -> UserRow \cup {NULL}] /\ row'[u] = account /\ account # NULL
      /\ \A v \in User : v # u => row'[v] = row[v]
  BY <1>0, NullIsNoRow DEF AccountsInv, AccountsTypeOK
<1>2. \A t \in Slot : desk[t] \in DeskOp \cup {Idle}
  BY DEF AccountsInv, AccountsTypeOK
<1>3. ASSUME NEW t \in Slot, desk[t].pc \in {"role", "active"}
      PROVE  /\ [desk[t] EXCEPT !.stale = TRUE] \in DeskOp
             /\ [desk[t] EXCEPT !.stale = TRUE].pc = desk[t].pc
             /\ [desk[t] EXCEPT !.stale = TRUE].user = desk[t].user
             /\ [desk[t] EXCEPT !.stale = TRUE].stale
  <2>1. CASE desk[t].pc = "role"
    <3>1. desk[t] \in [pc : {"role"}, user : User, role : Roles, stale : BOOLEAN]
      BY <2>1, <1>2 DEF DeskOp, Idle
    <3>2. [desk[t] EXCEPT !.stale = TRUE] \in [pc : {"role"}, user : User, role : Roles, stale : BOOLEAN]
      BY <3>1
    <3>. QED BY <3>1, <3>2 DEF DeskOp
  <2>2. CASE desk[t].pc = "active"
    <3>1. desk[t] \in [pc : {"active"}, user : User, active : BOOLEAN, role : Roles, stale : BOOLEAN]
      BY <2>2, <1>2 DEF DeskOp, Idle
    <3>2. [desk[t] EXCEPT !.stale = TRUE]
            \in [pc : {"active"}, user : User, active : BOOLEAN, role : Roles, stale : BOOLEAN]
      BY <3>1
    <3>. QED BY <3>1, <3>2 DEF DeskOp
  <2>. QED BY <1>3, <2>1, <2>2
<1>4. /\ desk'[s] = next
      /\ \A t \in Slot : t # s =>
           desk'[t] = IF removes /\ desk[t].pc \in {"role", "active"}
                      THEN [desk[t] EXCEPT !.stale = TRUE] ELSE desk[t]
      /\ desk' = [t \in Slot |-> desk'[t]]
  BY <1>0 DEF Outdated, AccountsInv, AccountsTypeOK
<1>5. desk' \in [Slot -> DeskOp \cup {Idle}]
  BY <1>2, <1>3, <1>4
<1>6. \A t \in Slot : t # s =>
        /\ desk'[t].pc = desk[t].pc
        /\ desk[t].pc \notin {"role", "active"} => desk'[t] = desk[t]
        /\ desk[t].pc \in {"role", "active"} => desk'[t].user = desk[t].user
        /\ (removes /\ desk[t].pc \in {"role", "active"}) => desk'[t].stale
        /\ ~removes => desk'[t] = desk[t]
  BY <1>3, <1>4
<1>7. \A t \in Slot : desk'[t].pc \notin {"idle", "entered"} => row'[desk'[t].user] # NULL
  <2>. SUFFICES ASSUME NEW t \in Slot, desk'[t].pc \notin {"idle", "entered"}
                PROVE  row'[desk'[t].user] # NULL
    OBVIOUS
  <2>1. CASE t = s
    BY <2>1, <1>1, <1>4
  <2>2. CASE t # s
    <3>1. desk'[t].user = desk[t].user /\ row[desk[t].user] # NULL /\ desk[t].user \in User
      BY <2>2, <1>2, <1>6 DEF AccountsInv, AccountsTypeOK, DeskOp, Idle
    <3>. QED BY <3>1, <1>1
  <2>. QED BY <2>1, <2>2
<1>8. crossed' \in BOOLEAN
  BY <1>0 DEF AccountsInv, AccountsTypeOK
<1>9. AnAdminRemains' /\ CountsHold'
  <2>1. CASE crossed'
    BY <2>1 DEF AnAdminRemains, CountsHold
  <2>2. CASE ~crossed' /\ removes
    <3>1. ~crossed /\ ~desk[s].stale /\ Removes(desk[s])
      BY <2>2, <1>0 DEF AccountsInv, AccountsTypeOK
    <3>2. PICK a \in ActiveAdmins : a # u
      BY <3>1 DEF AccountsInv, CountsHold
    <3>3. a \in ActiveAdmins'
      BY <3>2, <1>1 DEF ActiveAdmins, IsActiveAdmin
    <3>4. \A t \in Slot : Removes(desk'[t]) => desk'[t].stale
      BY <2>2, <1>4, <1>6 DEF Removes
    <3>. QED BY <3>3, <3>4 DEF AnAdminRemains, CountsHold
  <2>3. CASE ~crossed' /\ ~removes
    <3>1. crossed' = crossed
      BY <2>3, <1>0 DEF AccountsInv, AccountsTypeOK
    <3>2. \A v \in User : IsActiveAdmin(v) => IsActiveAdmin(v)'
      BY <2>3, <1>1 DEF IsActiveAdmin
    <3>3. \A t \in Slot : Removes(desk'[t]) => desk'[t] = desk[t]
      BY <2>3, <1>4, <1>6
    <3>. QED BY <3>1, <3>2, <3>3, RowsStay, AdminsStay
  <2>. QED BY <2>1, <2>2, <2>3
<1>. QED BY <1>1, <1>4, <1>5, <1>6, <1>7, <1>8, <1>9

LEMMA SetRoleKeeps ==
  ASSUME AccountsInv, NEW s \in Slot, SetRole(s)
  PROVE  AccountsInv'
<1>. DEFINE u == desk[s].user
            account == [row[u] EXCEPT !.role = desk[s].role]
            next == [pc |-> "get", user |-> u, role |-> desk[s].role]
<1>1. /\ desk[s] \in [pc : {"role"}, user : User, role : Roles, stale : BOOLEAN]
      /\ row[u] # NULL /\ row[u] \in UserRow
  BY DEF SetRole, AccountsInv, AccountsTypeOK, DeskOp, Idle
<1>2. account \in UserRow /\ account.active = row[u].active /\ account.role = desk[s].role
  BY <1>1 DEF UserRow
<1>3. next \in DeskOp /\ ~Removes(next) /\ next.user = u /\ next.pc = "get"
  BY <1>1 DEF DeskOp, Removes
<1>4. /\ Land(s, u, account, next)
      /\ UNCHANGED <<clerk, events, envAdmins, visit, decisions, decided, unsure>>
  BY DEF SetRole
<1>5. (IsActiveAdmin(u) /\ ~(account.active /\ account.role = "ADMIN")) => Removes(desk[s])
  BY <1>1, <1>2 DEF IsActiveAdmin, Removes
<1>. HIDE DEF account, next
<1>6. /\ row' \in [User -> UserRow \cup {NULL}] /\ row'[u] = account
      /\ \A v \in User : v # u => row'[v] = row[v]
      /\ desk' \in [Slot -> DeskOp \cup {Idle}] /\ desk'[s] = next
      /\ \A t \in Slot : t # s =>
           /\ desk'[t].pc = desk[t].pc
           /\ desk[t].pc \notin {"role", "active"} => desk'[t] = desk[t]
      /\ \A t \in Slot : desk'[t].pc \notin {"idle", "entered"} => row'[desk'[t].user] # NULL
      /\ crossed' \in BOOLEAN
      /\ AnAdminRemains' /\ CountsHold'
  BY <1>1, <1>2, <1>3, <1>4, <1>5, LandFacts
<1>7. AccountsTypeOK'
  BY <1>4, <1>6 DEF AccountsInv, AccountsTypeOK
<1>8. \A v \in User : row[v] # NULL => row'[v] # NULL /\ row'[v].active = row[v].active
  BY <1>1, <1>2, <1>6, NullIsNoRow
<1>9. ASSUME NEW t \in Slot, NEW v \in User
      PROVE  /\ Deciding(t, v)' => Deciding(t, v)
             /\ Banning(t, v)' => Banning(t, v) /\ desk'[t] = desk[t]
             /\ Banning(t, v) => desk'[t] = desk[t]
  BY <1>1, <1>3, <1>6 DEF Deciding, Banning
<1>10. DecisionInv'
  BY <1>4, <1>8, <1>9, AgreementStays
<1>. QED BY <1>6, <1>7, <1>10 DEF AccountsInv

LEMMA SetActiveKeeps ==
  ASSUME AccountsInv, NEW s \in Slot, SetActive(s)
  PROVE  AccountsInv'
<1>. DEFINE u == desk[s].user
            active == desk[s].active
            account == [row[u] EXCEPT !.active = active]
            next == [pc |-> "ban", user |-> u, active |-> active, role |-> desk[s].role]
<1>1. /\ desk[s] \in [pc : {"active"}, user : User, active : BOOLEAN, role : Roles, stale : BOOLEAN]
      /\ row[u] # NULL /\ row[u] \in UserRow
  BY DEF SetActive, AccountsInv, AccountsTypeOK, DeskOp, Idle
<1>2. account \in UserRow /\ account.active = active /\ account.role = row[u].role
  BY <1>1 DEF UserRow
<1>3. next \in DeskOp /\ ~Removes(next) /\ next.user = u /\ next.pc = "ban" /\ next.active = active
  BY <1>1 DEF DeskOp, Removes
<1>4. /\ Land(s, u, account, next)
      /\ decided' = [decided EXCEPT ![u] = active]
      /\ unsure' = IF SyncingTo(u) THEN unsure \cup {u} ELSE unsure
      /\ UNCHANGED <<clerk, events, envAdmins, visit, decisions>>
  BY DEF SetActive
<1>5. (IsActiveAdmin(u) /\ ~(account.active /\ account.role = "ADMIN")) => Removes(desk[s])
  BY <1>1, <1>2 DEF IsActiveAdmin, Removes
<1>. HIDE DEF account, next
<1>6. /\ row' \in [User -> UserRow \cup {NULL}] /\ row'[u] = account
      /\ \A v \in User : v # u => row'[v] = row[v]
      /\ desk' \in [Slot -> DeskOp \cup {Idle}] /\ desk'[s] = next
      /\ \A t \in Slot : t # s =>
           /\ desk'[t].pc = desk[t].pc
           /\ desk[t].pc \notin {"role", "active"} => desk'[t] = desk[t]
      /\ \A t \in Slot : desk'[t].pc \notin {"idle", "entered"} => row'[desk'[t].user] # NULL
      /\ crossed' \in BOOLEAN
      /\ AnAdminRemains' /\ CountsHold'
  BY <1>1, <1>2, <1>3, <1>4, <1>5, LandFacts
<1>7. /\ decided' \in [User -> BOOLEAN \cup {NULL}] /\ decided'[u] = active
      /\ \A v \in User : v # u => decided'[v] = decided[v]
      /\ unsure \subseteq unsure' /\ unsure' \subseteq User
      /\ u \notin unsure' => ~SyncingTo(u)
  BY <1>1, <1>4 DEF AccountsInv, AccountsTypeOK
<1>8. AccountsTypeOK'
  BY <1>4, <1>6, <1>7 DEF AccountsInv, AccountsTypeOK
<1>9. ASSUME NEW t \in Slot, t # s, NEW v \in User
      PROVE  /\ Deciding(t, v)' <=> Deciding(t, v)
             /\ Banning(t, v)' <=> Banning(t, v)
             /\ Banning(t, v) => desk'[t] = desk[t]
  BY <1>6, <1>9 DEF Deciding, Banning
<1>10. \A v \in User : v # u => /\ ~Deciding(s, v) /\ ~Deciding(s, v)' /\ ~Banning(s, v) /\ ~Banning(s, v)'
  BY <1>1, <1>3, <1>6 DEF Deciding, Banning
<1>11. EventsAreCurrent'
  BY <1>4, <1>7 DEF AccountsInv, DecisionInv, EventsAreCurrent
<1>12. desk'[s].pc = "ban" /\ desk'[s].user = u /\ desk'[s].active = active
  BY <1>3, <1>6
<1>13. OneDecision'
  <2>. SUFFICES ASSUME NEW v \in User \ unsure', NEW t \in Slot
                PROVE  /\ Deciding(t, v)' => \A x \in Slot : Deciding(x, v)' => x = t
                       /\ Banning(t, v)' => decided'[v] = desk'[t].active
    BY DEF OneDecision
  <2>1. CASE v = u
    <3>1. \A x \in Slot : Deciding(x, v)' => x = s
      BY <2>1, <1>7, <1>9 DEF SyncingTo, Deciding
    <3>2. \A x \in Slot : Banning(x, v)' => x = s
      BY <3>1 DEF Deciding, Banning
    <3>. QED BY <2>1, <3>1, <3>2, <1>7, <1>12
  <2>2. CASE v # u
    <3>1. \A x \in Slot : Deciding(x, v)' => Deciding(x, v)
      BY <2>2, <1>9, <1>10
    <3>2. Banning(t, v)' => Banning(t, v) /\ desk'[t] = desk[t] /\ decided'[v] = decided[v]
      BY <2>2, <1>7, <1>9, <1>10
    <3>3. v \in User \ unsure
      BY <1>7
    <3>. QED BY <3>1, <3>2, <3>3 DEF AccountsInv, DecisionInv, OneDecision
  <2>. QED BY <2>1, <2>2
<1>14. ClerkFollows'
  <2>. SUFFICES ASSUME NEW v \in User \ unsure', decided'[v] # NULL
                PROVE  (\E t \in Slot : Banning(t, v)') \/ clerk[v].banned = ~decided'[v]
    BY <1>4 DEF ClerkFollows
  <2>1. CASE v = u
    BY <2>1, <1>12 DEF Banning
  <2>2. CASE v # u
    BY <2>2, <1>7, <1>9, <1>10 DEF AccountsInv, DecisionInv, ClerkFollows
  <2>. QED BY <2>1, <2>2
<1>15. RowFollows'
  <2>. SUFFICES ASSUME NEW v \in User \ unsure', decided'[v] # NULL
                PROVE  /\ row'[v] # NULL
                       /\ \/ row'[v].active = decided'[v]
                          \/ \E e \in events : e.user = v
                          \/ \E t \in Slot : Banning(t, v)' /\ clerk[v].banned = desk'[t].active
    BY <1>4 DEF RowFollows
  <2>1. CASE v = u
    BY <2>1, <1>2, <1>6, <1>7, NullIsNoRow
  <2>2. CASE v # u
    <3>1. v \in User \ unsure /\ decided[v] # NULL /\ decided'[v] = decided[v] /\ row'[v] = row[v]
      BY <2>2, <1>6, <1>7
    <3>2. /\ row[v] # NULL
          /\ \/ row[v].active = decided[v]
             \/ \E e \in events : e.user = v
             \/ \E t \in Slot : Banning(t, v) /\ clerk[v].banned = desk[t].active
      BY <3>1 DEF AccountsInv, DecisionInv, RowFollows
    <3>3. \A t \in Slot : Banning(t, v) => Banning(t, v)' /\ desk'[t] = desk[t]
      BY <2>2, <1>9, <1>10
    <3>. QED BY <3>1, <3>2, <3>3
  <2>. QED BY <2>1, <2>2
<1>. QED BY <1>6, <1>8, <1>11, <1>13, <1>14, <1>15 DEF AccountsInv, DecisionInv

\* The ban is over with, made or not: request s goes on to write the cached role.
LEMMA BanEnds ==
  ASSUME AccountsInv, NEW s \in Slot, desk[s].pc = "ban",
         desk' = [desk EXCEPT ![s] = [pc |-> "status", user |-> desk[s].user,
                                      role |-> IF desk[s].active THEN desk[s].role ELSE "STUDENT"]],
         UNCHANGED <<row, envAdmins, visit, decisions, decided, crossed>>
  PROVE  /\ desk[s].user \in User /\ desk[s].active \in BOOLEAN
         /\ desk' \in [Slot -> DeskOp \cup {Idle}]
         /\ \A t \in Slot : desk'[t].pc \notin {"idle", "entered"} => row'[desk'[t].user] # NULL
         /\ AnAdminRemains' /\ CountsHold'
         /\ \A t \in Slot : t # s => desk'[t] = desk[t]
         /\ \A t \in Slot, u \in User : Deciding(t, u)' <=> Deciding(t, u)
         /\ \A t \in Slot, u \in User :
              Banning(t, u)' <=> Banning(t, u) /\ t # s
         /\ Banning(s, desk[s].user)
<1>. DEFINE new == [pc |-> "status", user |-> desk[s].user,
                    role |-> IF desk[s].active THEN desk[s].role ELSE "STUDENT"]
<1>1. desk[s] \in [pc : {"ban"}, user : User, active : BOOLEAN, role : Roles] /\ row[desk[s].user] # NULL
  BY DEF AccountsInv, AccountsTypeOK, DeskOp, Idle
<1>2. /\ new \in DeskOp \cup {Idle} /\ ~Removes(new)
      /\ new.user = desk[s].user /\ new.pc = "status"
  BY <1>1 DEF DeskOp, Removes, Roles
<1>3. desk' = [desk EXCEPT ![s] = new] /\ decisions' \in 0..MaxDecision
  BY DEF AccountsInv, AccountsTypeOK
<1>. HIDE DEF new
<1>4. /\ desk' \in [Slot -> DeskOp \cup {Idle}]
      /\ \A t \in Slot : t # s => desk'[t] = desk[t]
      /\ desk'[s] = new
      /\ \A t \in Slot : desk'[t].pc \notin {"idle", "entered"} => row'[desk'[t].user] # NULL
      /\ AnAdminRemains' /\ CountsHold'
  BY <1>1, <1>2, <1>3, DeskMoves
<1>5. \A t \in Slot, u \in User : (Deciding(t, u)' <=> Deciding(t, u))
                                  /\ (Banning(t, u)' <=> Banning(t, u) /\ t # s)
  BY <1>1, <1>2, <1>4 DEF Deciding, Banning
<1>. QED BY <1>1, <1>4, <1>5 DEF Banning

LEMMA BanFailsKeeps ==
  ASSUME AccountsInv, NEW s \in Slot, BanFails(s)
  PROVE  AccountsInv'
<1>. DEFINE u == desk[s].user
<1>1. /\ desk[s].pc = "ban"
      /\ UNCHANGED <<row, clerk, events, envAdmins, visit, decisions, decided, crossed>>
      /\ desk' = [desk EXCEPT ![s] = [pc |-> "status", user |-> desk[s].user,
                                      role |-> IF desk[s].active THEN desk[s].role ELSE "STUDENT"]]
      /\ unsure' = IF clerk[u].banned = desk[s].active THEN unsure \cup {u} ELSE unsure
  BY DEF BanFails, Tables
<1>2. /\ u \in User /\ desk[s].active \in BOOLEAN
      /\ desk' \in [Slot -> DeskOp \cup {Idle}]
      /\ \A t \in Slot : desk'[t].pc \notin {"idle", "entered"} => row'[desk'[t].user] # NULL
      /\ AnAdminRemains' /\ CountsHold'
      /\ \A t \in Slot : t # s => desk'[t] = desk[t]
      /\ \A t \in Slot, v \in User : Deciding(t, v)' <=> Deciding(t, v)
      /\ \A t \in Slot, v \in User : Banning(t, v)' <=> Banning(t, v) /\ t # s
  BY <1>1, BanEnds
<1>3. unsure \subseteq unsure' /\ unsure' \subseteq User
  BY <1>1, <1>2 DEF AccountsInv, AccountsTypeOK
<1>4. AccountsTypeOK'
  BY <1>1, <1>2, <1>3 DEF AccountsInv, AccountsTypeOK
<1>5. u \notin unsure' => clerk[u].banned = ~desk[s].active
  BY <1>1, <1>2 DEF AccountsInv, AccountsTypeOK
<1>6. ASSUME NEW t \in Slot, NEW v \in User \ unsure'
      PROVE  /\ Deciding(t, v)' => Deciding(t, v)
             /\ Banning(t, v)' => Banning(t, v) /\ desk'[t] = desk[t]
             /\ Banning(t, v) => desk'[t] = desk[t] \/ clerk[v].banned = ~desk[t].active
  <2>1. Banning(s, v) => v = u
    BY DEF Banning
  <2>. QED BY <1>2, <1>5, <2>1
<1>7. DecisionInv'
  BY <1>1, <1>3, <1>6, AgreementStays
<1>. QED BY <1>2, <1>4, <1>7 DEF AccountsInv

LEMMA BanKeeps ==
  ASSUME AccountsInv, NEW s \in Slot, Ban(s)
  PROVE  AccountsInv'
<1>. DEFINE u == desk[s].user
            active == desk[s].active
            changes == clerk[u].banned = active
<1>1. /\ desk[s].pc = "ban"
      /\ clerk' = [clerk EXCEPT ![u].banned = ~active]
      /\ IF changes THEN Announce(u, active) ELSE UNCHANGED <<events, unsure>>
      /\ UNCHANGED <<row, envAdmins, visit, decisions, decided, crossed>>
      /\ desk' = [desk EXCEPT ![s] = [pc |-> "status", user |-> desk[s].user,
                                      role |-> IF desk[s].active THEN desk[s].role ELSE "STUDENT"]]
  BY DEF Ban
<1>2. /\ u \in User /\ active \in BOOLEAN
      /\ desk' \in [Slot -> DeskOp \cup {Idle}]
      /\ \A t \in Slot : desk'[t].pc \notin {"idle", "entered"} => row'[desk'[t].user] # NULL
      /\ AnAdminRemains' /\ CountsHold'
      /\ \A t \in Slot : t # s => desk'[t] = desk[t]
      /\ \A t \in Slot, v \in User : Deciding(t, v)' <=> Deciding(t, v)
      /\ \A t \in Slot, v \in User : Banning(t, v)' <=> Banning(t, v) /\ t # s
      /\ Banning(s, u)
  BY <1>1, BanEnds
<1>3. /\ events' \subseteq Event /\ unsure' \subseteq User /\ unsure \subseteq unsure'
      /\ events \subseteq events'
      /\ \A e \in events' : e \in events \/ (e.user = u /\ e.active = active)
  BY <1>1, <1>2, AnnounceFacts DEF AccountsInv, AccountsTypeOK
<1>4. /\ clerk' \in [User -> [banned : BOOLEAN, role : Roles]]
      /\ clerk'[u].banned = ~active
      /\ \A v \in User : v # u => clerk'[v] = clerk[v]
      /\ clerk[u].banned \in BOOLEAN
  <2>1. clerk[u] \in [banned : BOOLEAN, role : Roles] /\ (~active) \in BOOLEAN
    BY <1>2 DEF AccountsInv, AccountsTypeOK
  <2>. DEFINE new == [clerk[u] EXCEPT !.banned = ~active]
  <2>3. new \in [banned : BOOLEAN, role : Roles] /\ new.banned = ~active
    BY <2>1
  <2>4. clerk' = [clerk EXCEPT ![u] = new]
    BY <1>1
  <2>. HIDE DEF new
  <2>. QED BY <2>1, <2>3, <2>4, <1>2 DEF AccountsInv, AccountsTypeOK
<1>5. AccountsTypeOK'
  BY <1>1, <1>2, <1>3, <1>4 DEF AccountsInv, AccountsTypeOK
<1>6. EventsAreCurrent'
  <2>. SUFFICES ASSUME NEW e \in events', e.user \notin unsure'
                PROVE  e.active = ~clerk'[e.user].banned
    BY DEF EventsAreCurrent
  <2>1. e \in Event /\ e.user \in User \ unsure
    BY <1>3 DEF Event
  <2>2. CASE e.user # u
    <3>1. e \in events
      BY <2>2, <1>3
    <3>. QED BY <2>1, <2>2, <3>1, <1>4 DEF AccountsInv, DecisionInv, EventsAreCurrent
  <2>3. CASE e.user = u /\ e \in events
    <3>1. e.active = ~clerk[u].banned
      BY <2>1, <2>3 DEF AccountsInv, DecisionInv, EventsAreCurrent
    <3>2. CASE changes
      <4>1. e = [user |-> u, active |-> ~active]
        BY <2>1, <2>3, <3>1, <3>2 DEF Event
      <4>2. Announce(u, active)
        BY <3>2, <1>1
      <4>3. u \in unsure'
        BY <4>1, <4>2, <2>3 DEF Announce
      <4>. QED BY <4>3, <2>3
    <3>3. CASE ~changes
      BY <3>1, <3>3, <2>3, <1>2, <1>4
    <3>. QED BY <3>2, <3>3
  <2>4. CASE e.user = u /\ e \notin events
    BY <2>4, <1>2, <1>3, <1>4
  <2>. QED BY <2>2, <2>3, <2>4
<1>7. OneDecision'
  <2>. SUFFICES ASSUME NEW v \in User \ unsure', NEW t \in Slot
                PROVE  /\ Deciding(t, v)' => \A x \in Slot : Deciding(x, v)' => x = t
                       /\ Banning(t, v)' => decided'[v] = desk'[t].active
    BY DEF OneDecision
  <2>1. v \in User \ unsure
    BY <1>3
  <2>2. Banning(t, v)' => Banning(t, v) /\ desk'[t] = desk[t]
    BY <1>2
  <2>. QED BY <2>1, <2>2, <1>1, <1>2 DEF AccountsInv, DecisionInv, OneDecision
\* For an account in agreement, this was the one request that decided.
<1>8. ASSUME u \notin unsure'
      PROVE  /\ decided[u] = active
             /\ \A t \in Slot : Banning(t, u) => t = s
  <2>1. u \in User \ unsure
    BY <1>2, <1>3, <1>8
  <2>2. decided[u] = active
    BY <2>1, <1>2 DEF AccountsInv, DecisionInv, OneDecision
  <2>3. \A t \in Slot : Banning(t, u) => Deciding(t, u)
    BY DEF Banning, Deciding
  <2>4. \A t \in Slot : Banning(t, u) => t = s
    BY <2>1, <2>3, <1>2 DEF AccountsInv, DecisionInv, OneDecision
  <2>. QED BY <2>2, <2>4
<1>9. ClerkFollows'
  <2>. SUFFICES ASSUME NEW v \in User \ unsure', decided[v] # NULL
                PROVE  (\E t \in Slot : Banning(t, v)') \/ clerk'[v].banned = ~decided[v]
    BY <1>1 DEF ClerkFollows
  <2>1. CASE v = u
    BY <2>1, <1>4, <1>8
  <2>2. CASE v # u
    <3>1. v \in User \ unsure
      BY <1>3
    <3>2. \A t \in Slot : Banning(t, v) => Banning(t, v)'
      BY <2>2, <1>2 DEF Banning
    <3>3. (\E t \in Slot : Banning(t, v)) \/ clerk[v].banned = ~decided[v]
      BY <3>1 DEF AccountsInv, DecisionInv, ClerkFollows
    <3>. QED BY <3>2, <3>3, <2>2, <1>4
  <2>. QED BY <2>1, <2>2
<1>10. RowFollows'
  <2>. SUFFICES ASSUME NEW v \in User \ unsure', decided[v] # NULL
                PROVE  /\ row[v] # NULL
                       /\ \/ row[v].active = decided[v]
                          \/ \E e \in events' : e.user = v
                          \/ \E t \in Slot : Banning(t, v)' /\ clerk'[v].banned = desk'[t].active
    BY <1>1 DEF RowFollows
  <2>1. v \in User \ unsure
    BY <1>3
  <2>2. /\ row[v] # NULL
        /\ \/ row[v].active = decided[v]
           \/ \E e \in events : e.user = v
           \/ \E t \in Slot : Banning(t, v) /\ clerk[v].banned = desk[t].active
    BY <2>1 DEF AccountsInv, DecisionInv, RowFollows
  <2>3. CASE v # u
    <3>1. \A t \in Slot : Banning(t, v) => Banning(t, v)' /\ desk'[t] = desk[t]
      BY <2>3, <1>2 DEF Banning
    <3>. QED BY <2>2, <2>3, <3>1, <1>3, <1>4
  <2>4. CASE v = u /\ changes
    <3>1. [user |-> u, active |-> active] \in events'
      BY <2>4, <1>1 DEF Announce
    <3>. QED BY <2>2, <2>4, <3>1
  <2>5. CASE v = u /\ ~changes
    <3>1. \A t \in Slot : Banning(t, v) => t = s
      BY <2>5, <1>8
    <3>2. ~\E t \in Slot : Banning(t, v) /\ clerk[v].banned = desk[t].active
      BY <3>1, <2>5
    <3>. QED BY <2>2, <3>2, <1>3
  <2>. QED BY <2>3, <2>4, <2>5
<1>. QED BY <1>2, <1>5, <1>6, <1>7, <1>9, <1>10 DEF AccountsInv, DecisionInv

-----------------------------------------------------------------------------
(* Theorems.                                                                *)

LEMMA AccountsInitHolds ==
  ASSUME AccountsInit PROVE AccountsInv
<1>1. [role |-> "ADMIN", active |-> TRUE] \in UserRow
  BY DEF UserRow, Roles
<1>2. row \in [User -> UserRow \cup {NULL}]
  BY <1>1 DEF AccountsInit
<1>3. clerk \in [User -> [banned : BOOLEAN, role : Roles]] /\ \A u \in User : clerk[u].banned = FALSE
  BY DEF AccountsInit, Roles
<1>4. /\ desk \in [Slot -> DeskOp \cup {Idle}] /\ \A s \in Slot : desk[s].pc = "idle"
      /\ visit \in [User -> VisitOp \cup {Idle}]
  BY DEF AccountsInit, Idle
<1>0. /\ events \subseteq Event
      /\ \A e \in events : e.active = TRUE /\ e.user \in User
  <2>1. \A e \in events : \E u \in User : e = [user |-> u, active |-> TRUE]
    BY DEF AccountsInit
  <2>2. ASSUME NEW e \in events PROVE e \in Event /\ e.active = TRUE /\ e.user \in User
    <3>1. PICK u \in User : e = [user |-> u, active |-> TRUE]
      BY <2>1
    <3>2. [user |-> u, active |-> TRUE] \in Event
      BY DEF Event
    <3>. QED BY <3>1, <3>2
  <2>. QED BY <2>2
<1>5. /\ decided \in [User -> BOOLEAN \cup {NULL}] /\ \A u \in User : decided[u] = NULL
      /\ envAdmins \subseteq User /\ decisions \in 0..MaxDecision /\ unsure = {} /\ crossed = FALSE
      /\ ActiveAdmins # {}
  BY DecisionBound DEF AccountsInit
<1>6. AccountsTypeOK
  BY <1>0, <1>2, <1>3, <1>4, <1>5 DEF AccountsTypeOK
<1>7. AnAdminRemains /\ CountsHold
  BY <1>4, <1>5 DEF AnAdminRemains, CountsHold, Removes
<1>8. DecisionInv
  BY <1>0, <1>3, <1>4, <1>5 DEF DecisionInv, EventsAreCurrent, OneDecision, ClerkFollows, RowFollows, Deciding, Banning
<1>. QED BY <1>6, <1>7, <1>8 DEF AccountsInv

LEMMA AccountsStutterKeeps ==
  ASSUME AccountsInv, UNCHANGED accountVars PROVE AccountsInv'
<1>1. AccountsTypeOK'
  BY DEF accountVars, AccountsInv, AccountsTypeOK
<1>2. ActiveAdmins' = ActiveAdmins
  BY DEF accountVars, ActiveAdmins, IsActiveAdmin
<1>3. AnAdminRemains' /\ CountsHold'
  BY <1>2 DEF accountVars, AccountsInv, AnAdminRemains, CountsHold
<1>4. DecisionInv'
  BY DEF accountVars, AccountsInv, DecisionInv, EventsAreCurrent, OneDecision, ClerkFollows, RowFollows,
         Deciding, Banning
<1>. QED BY <1>1, <1>3, <1>4 DEF AccountsInv

\* Whatever the desks, the visits, Clerk and its events do, in whatever order: a count
\* that a pending request of staff.ts made still holds unless it is known to be out of
\* date, and of an account of which the desk and Clerk agree there is at most one
\* request at Clerk, the events say what Clerk says, and a row that does not say what
\* the desk decided will hear of it.
THEOREM AccountsInvariant == AccountsSpec => []AccountsInv
<1>1. AccountsInv /\ [AccountsNext]_accountVars => AccountsInv'
  <2>. SUFFICES ASSUME AccountsInv, [AccountsNext]_accountVars PROVE AccountsInv'
    OBVIOUS
  <2>1. CASE UNCHANGED accountVars
    BY <2>1, AccountsStutterKeeps
  <2>2. ASSUME NEW s \in Slot, DeskSteps(s) PROVE AccountsInv'
    <3>1. ASSUME NEW u \in User, Enter(s, u) PROVE AccountsInv'
      BY <3>1, EnterKeeps
    <3>2. ASSUME NEW u \in User, NEW role \in Roles, AskForRole(s, u, role) PROVE AccountsInv'
      BY <3>2, AskForRoleKeeps
    <3>3. ASSUME NEW u \in User, NEW active \in BOOLEAN, NEW counts \in BOOLEAN, AskForActive(s, u, active, counts)
          PROVE AccountsInv'
      BY <3>3, AskForActiveKeeps
    <3>4. CASE SetRole(s)
      BY <3>4, SetRoleKeeps
    <3>5. CASE SetActive(s)
      BY <3>5, SetActiveKeeps
    <3>6. CASE Ban(s)
      BY <3>6, BanKeeps
    <3>7. CASE BanFails(s)
      BY <3>7, BanFailsKeeps
    <3>8. CASE PutStatus(s) \/ DeskPut(s)
      BY <3>8, DeskWritesRole
    <3>9. CASE DeskGet(s)
      BY <3>9, DeskGetKeeps
    <3>10. CASE LeaveDesk(s)
      BY <3>10, LeaveDeskKeeps
    <3>. QED BY <2>2, <3>1, <3>2, <3>3, <3>4, <3>5, <3>6, <3>7, <3>8, <3>9, <3>10 DEF DeskSteps
  <2>3. ASSUME NEW u \in User, VisitSteps(u) PROVE AccountsInv'
    BY <2>3, VisitKeeps, FirstVisitKeeps, UpsertKeeps, RepairGetKeeps, RepairPutKeeps, LeaveVisitKeeps
       DEF VisitSteps
  <2>4. ASSUME NEW u \in User, EditProfile(u) \/ BanAtClerk(u) PROVE AccountsInv'
    BY <2>4, EditProfileKeeps, BanAtClerkKeeps
  <2>5. ASSUME NEW e \in events, Webhook(e) PROVE AccountsInv'
    BY <2>5, WebhookKeeps
  <2>. QED BY <2>1, <2>2, <2>3, <2>4, <2>5 DEF AccountsNext
<1>. QED BY <1>1, AccountsInitHolds, PTL DEF AccountsSpec

\* Rows, events and requests keep their shapes, and no request is about an account
\* whose row is gone: syncUser, the desk and the webhook only ever add rows.
THEOREM AccountsTypes == AccountsSpec => []AccountsTypeOK
<1>1. AccountsInv => AccountsTypeOK
  BY DEF AccountsInv
<1>. QED BY <1>1, AccountsInvariant, PTL

\* "That is the only active admin" (staff.ts): however many administrators demote and
\* deactivate one another at once, one of them remains, unless somebody wrote on a
\* count that was out of date, on none at all, or Clerk deactivated the last.
THEOREM AdminRemains == AccountsSpec => []AnAdminRemains
<1>1. AccountsInv => AnAdminRemains
  BY DEF AccountsInv
<1>. QED BY <1>1, AccountsInvariant, PTL

\* What the desk decided of an account stands once its calls to Clerk and their events
\* are over (setStaffActive, setUserActiveStatus, syncClerkUserStatus and the webhook),
\* unless the histories say that Clerk and the desk may disagree about it.
THEOREM DecisionsStand == AccountsSpec => []DecisionStands
<1>1. AccountsInv => DecisionStands
  <2>. SUFFICES ASSUME AccountsInv, NEW u \in User \ unsure, decided[u] # NULL, QuietAbout(u)
                PROVE  row[u].active = decided[u]
    BY DEF DecisionStands
  <2>1. \A s \in Slot : ~Banning(s, u)
    BY DEF QuietAbout, Banning
  <2>. QED BY <2>1 DEF AccountsInv, DecisionInv, RowFollows, QuietAbout
<1>. QED BY <1>1, AccountsInvariant, PTL

-----------------------------------------------------------------------------
(* The stream.                                                              *)

\* A handler that is not deaf is in the set of the table, a stream that awaits the set
\* it created will find it there, and the last command of a channel that has a set is
\* its subscription.
HandlersInTable ==
  \A s \in Stream, ch \in Channel :
    (member[s][ch] # Nobody /\ <<s, ch>> \notin deaf) => handlers[ch] = member[s][ch]
AwaitedInTable ==
  \A s \in Stream : (Subscribing(s) /\ <<s, Now(s)>> \notin deaf) => handlers[Now(s)] = s
Asked(commands, done) ==
  IF commands = <<>> THEN done ELSE commands[Len(commands)].cmd = "SUBSCRIBE"
SetsAreAsked == \A ch \in Channel : handlers[ch] # Nobody => Asked(wire[ch], ch \in heard)

StreamInv == StreamTypeOK /\ HandlersInTable /\ AwaitedInTable /\ SetsAreAsked

-----------------------------------------------------------------------------
(* Sequences of commands, and channels of streams.                          *)

LEMMA AppendFacts ==
  ASSUME NEW w \in Seq(Command), NEW c \in Command
  PROVE  /\ Append(w, c) \in Seq(Command) /\ Append(w, c) # <<>>
         /\ Append(w, c)[Len(Append(w, c))] = c
OBVIOUS

LEMMA TailFacts ==
  ASSUME NEW w \in Seq(Command), w # <<>>
  PROVE  /\ Head(w) \in Command /\ Tail(w) \in Seq(Command)
         /\ Tail(w) = <<>> => w[Len(w)] = Head(w)
         /\ Tail(w) # <<>> => Tail(w)[Len(Tail(w))] = w[Len(w)]
<1>1. /\ Head(w) \in Command /\ Tail(w) \in Seq(Command) /\ Len(Tail(w)) = Len(w) - 1
      /\ \A i \in 1..Len(Tail(w)) : Tail(w)[i] = w[i+1]
      /\ Len(w) \in Nat /\ Len(w) # 0 /\ Head(w) = w[1]
  BY HeadTailProperties
<1>2. Tail(w) = <<>> => Len(w) = 1
  BY <1>1
<1>3. Tail(w) # <<>> => Len(Tail(w)) # 0 /\ Len(Tail(w)) \in Nat
  BY <1>1, EmptySeq
<1>. QED BY <1>1, <1>2, <1>3

LEMMA CommandFacts ==
  ASSUME NEW s \in Stream
  PROVE  /\ Subscription(s) \in Command /\ Subscription(s).cmd = "SUBSCRIBE"
         /\ Unsubscription \in Command
BY DEF Subscription, Unsubscription, Command

LEMMA NowFacts ==
  ASSUME NEW s \in Stream, stream[s].n \in DOMAIN Channels[s]
  PROVE  Now(s) \in Channel
BY ChannelsAreSequences DEF Now

LEMMA NextIndex ==
  ASSUME StreamTypeOK, NEW s \in Stream, stream[s].n <= Len(Channels[s])
  PROVE  stream[s].n \in DOMAIN Channels[s]
<1>1. stream[s].n \in Nat \ {0}
  BY DEF StreamTypeOK, Place
<1>2. Channels[s] \in Seq(Channel)
  BY ChannelsAreSequences
<1>. QED BY <1>1, <1>2

-----------------------------------------------------------------------------
(* Steps.                                                                   *)

\* The next channel of a stream, and how its place changes when it goes on.
LEMMA OnwardFacts ==
  ASSUME StreamTypeOK, NEW s \in Stream, NEW offs \in SUBSET Channel, Onward(s, offs)
  PROVE  /\ stream' \in [Stream -> Place] /\ ~Subscribing(s)' /\ stream'[s].offs = offs
         /\ \A t \in Stream : t # s => stream'[t] = stream[t]
<1>1. stream[s] \in Place /\ stream[s].n + 1 \in Nat \ {0}
  BY DEF StreamTypeOK, Place
<1>. DEFINE new == [stream[s] EXCEPT !.pc = "next", !.n = stream[s].n + 1, !.offs = offs]
<1>2. new \in Place /\ new.pc = "next" /\ new.offs = offs
  BY <1>1 DEF Place
<1>3. stream' = [stream EXCEPT ![s] = new]
  BY DEF Onward
<1>4. /\ stream' \in [Stream -> Place] /\ stream'[s] = new
      /\ \A t \in Stream : t # s => stream'[t] = stream[t]
  BY <1>2, <1>3 DEF StreamTypeOK
<1>5. ~Subscribing(s)'
  BY <1>2, <1>4 DEF Subscribing, At
<1>. QED BY <1>2, <1>4, <1>5

LEMMA OpenKeeps ==
  ASSUME StreamInv, NEW s \in Stream, Open(s)
  PROVE  StreamInv'
<1>1. PICK pc \in {"refused", "next"} : stream' = [stream EXCEPT ![s].pc = pc]
  BY DEF Open
<1>2. /\ stream' \in [Stream -> Place] /\ ~Subscribing(s)'
      /\ \A t \in Stream : stream'[t].offs = stream[t].offs /\ (t # s => stream'[t] = stream[t])
  BY <1>1 DEF StreamInv, StreamTypeOK, Place, Subscribing, At
<1>3. UNCHANGED <<handlers, member, here, wire, heard, torn, deaf>>
  BY DEF Open
<1>4. StreamTypeOK'
  BY <1>2, <1>3 DEF StreamInv, StreamTypeOK, Subscribing, At
<1>5. HandlersInTable' /\ SetsAreAsked'
  BY <1>3 DEF StreamInv, HandlersInTable, SetsAreAsked, Asked
<1>6. AwaitedInTable'
  BY <1>2, <1>3 DEF StreamInv, AwaitedInTable, Subscribing, At, Now
<1>. QED BY <1>4, <1>5, <1>6 DEF StreamInv

LEMMA CreateKeeps ==
  ASSUME StreamInv, NEW s \in Stream, Create(s)
  PROVE  StreamInv'
<1>. DEFINE ch == Now(s)
<1>1. stream[s].n \in DOMAIN Channels[s] /\ ch \in Channel /\ handlers[ch] = Nobody
  BY NextIndex, NowFacts DEF StreamInv, Create
<1>2. /\ handlers' = [handlers EXCEPT ![ch] = s]
      /\ wire' = [wire EXCEPT ![ch] = Append(wire[ch], Subscription(s))]
      /\ stream' = [stream EXCEPT ![s].pc = "waiting"]
      /\ UNCHANGED <<member, here, heard, torn, deaf>>
  BY DEF Create
<1>3. /\ stream' \in [Stream -> Place] /\ Now(s)' = ch
      /\ \A t \in Stream : /\ stream'[t].offs = stream[t].offs /\ stream'[t].n = stream[t].n
                           /\ t # s => stream'[t] = stream[t]
  BY <1>2 DEF StreamInv, StreamTypeOK, Place, Now
<1>4. /\ wire[ch] \in Seq(Command) /\ wire'[ch] = Append(wire[ch], Subscription(s))
      /\ wire' \in [Channel -> Seq(Command)]
      /\ \A c \in Channel : c # ch => wire'[c] = wire[c] /\ handlers'[c] = handlers[c]
      /\ handlers' \in [Channel -> Stream \cup {Nobody}] /\ handlers'[ch] = s
  BY <1>1, <1>2, AppendFacts, CommandFacts DEF StreamInv, StreamTypeOK
<1>5. StreamTypeOK'
  BY <1>1, <1>2, <1>3, <1>4 DEF StreamInv, StreamTypeOK, Subscribing, At
<1>6. HandlersInTable'
  BY <1>1, <1>2, <1>4 DEF StreamInv, StreamTypeOK, HandlersInTable
<1>7. AwaitedInTable'
  <2>. SUFFICES ASSUME NEW t \in Stream, Subscribing(t)', <<t, Now(t)'>> \notin deaf'
                PROVE  handlers'[Now(t)'] = t
    BY DEF AwaitedInTable
  <2>1. CASE t = s
    BY <2>1, <1>3, <1>4
  <2>2. CASE t # s
    <3>1. Subscribing(t) /\ Now(t)' = Now(t) /\ Now(t) \in Channel
      BY <2>2, <1>3, NowFacts DEF StreamInv, StreamTypeOK, Subscribing, At, Now
    <3>2. handlers[Now(t)] = t
      BY <3>1, <1>2 DEF StreamInv, AwaitedInTable
    <3>. QED BY <3>1, <3>2, <1>1, <1>4, NobodyIsNoStream
  <2>. QED BY <2>1, <2>2
<1>8. SetsAreAsked'
  <2>. SUFFICES ASSUME NEW c \in Channel, handlers'[c] # Nobody
                PROVE  Asked(wire'[c], c \in heard')
    BY DEF SetsAreAsked
  <2>1. CASE c = ch
    BY <2>1, <1>4, AppendFacts, CommandFacts DEF Asked
  <2>2. CASE c # ch
    BY <2>2, <1>2, <1>4 DEF StreamInv, SetsAreAsked
  <2>. QED BY <2>1, <2>2
<1>. QED BY <1>5, <1>6, <1>7, <1>8 DEF StreamInv

\* A handler goes into the set of the table, or is deaf already.
LEMMA AddKeeps ==
  ASSUME StreamInv, NEW s \in Stream, NEW set \in Stream, Add(s, set), Now(s) \in Channel,
         <<s, Now(s)>> \notin deaf => handlers[Now(s)] = set
  PROVE  StreamInv'
<1>. DEFINE ch == Now(s)
<1>1. /\ member' = [member EXCEPT ![s][ch] = set]
      /\ Onward(s, stream[s].offs \cup {ch})
      /\ UNCHANGED <<handlers, here, wire, heard, torn, deaf>>
  BY DEF Add
<1>2. stream[s].offs \cup {ch} \in SUBSET Channel
  BY DEF StreamInv, StreamTypeOK, Place
<1>3. /\ stream' \in [Stream -> Place] /\ ~Subscribing(s)'
      /\ stream'[s].offs = stream[s].offs \cup {ch}
      /\ \A t \in Stream : t # s => stream'[t] = stream[t]
  BY <1>1, <1>2, OnwardFacts DEF StreamInv
<1>4. /\ member' \in [Stream -> [Channel -> Stream \cup {Nobody}]] /\ member'[s][ch] = set
      /\ \A t \in Stream, c \in Channel : (t # s \/ c # ch) => member'[t][c] = member[t][c]
  BY <1>1 DEF StreamInv, StreamTypeOK
<1>5. StreamTypeOK'
  <2>1. \A t \in Stream : Subscribing(t)' => stream'[t].n \in DOMAIN Channels[t]
    BY <1>3 DEF StreamInv, StreamTypeOK, Subscribing, At
  <2>2. \A t \in Stream, c \in Channel : member'[t][c] # Nobody => c \in stream'[t].offs
    BY <1>3, <1>4 DEF StreamInv, StreamTypeOK
  <2>. QED BY <2>1, <2>2, <1>1, <1>3, <1>4 DEF StreamInv, StreamTypeOK
<1>6. HandlersInTable'
  BY <1>1, <1>4 DEF StreamInv, HandlersInTable
<1>7. AwaitedInTable'
  BY <1>1, <1>3 DEF StreamInv, AwaitedInTable, Subscribing, At, Now
<1>8. SetsAreAsked'
  BY <1>1 DEF StreamInv, SetsAreAsked, Asked
<1>. QED BY <1>5, <1>6, <1>7, <1>8 DEF StreamInv

LEMMA JoinKeeps ==
  ASSUME StreamInv, NEW s \in Stream, Join(s)
  PROVE  StreamInv'
<1>1. Now(s) \in Channel
  BY NextIndex, NowFacts DEF StreamInv, Join
<1>2. handlers[Now(s)] \in Stream
  BY <1>1 DEF StreamInv, StreamTypeOK, Join
<1>. QED BY <1>1, <1>2, AddKeeps DEF Join

LEMMA SubscribedKeeps ==
  ASSUME StreamInv, NEW s \in Stream, Subscribed(s)
  PROVE  StreamInv'
<1>1. Subscribing(s)
  BY DEF Subscribed, Subscribing
<1>2. Now(s) \in Channel
  BY <1>1, NowFacts DEF StreamInv, StreamTypeOK
<1>3. <<s, Now(s)>> \notin deaf => handlers[Now(s)] = s
  BY <1>1 DEF StreamInv, AwaitedInTable
<1>. QED BY <1>2, <1>3, AddKeeps DEF Subscribed

\* Everybody in the set that goes, and who awaits it, is deaf from now on.
LEMMA TimeOutKeeps ==
  ASSUME StreamInv, NEW s \in Stream, TimeOut(s)
  PROVE  StreamInv'
<1>. DEFINE ch == Now(s)
<1>1. /\ handlers' = [handlers EXCEPT ![ch] = Nobody]
      /\ deaf' = deaf \cup (Listeners(ch) \cup (Awaiting(ch) \ {s})) \X {ch}
      /\ Onward(s, stream[s].offs) /\ UNCHANGED <<member, here, wire, heard, torn>>
  BY DEF TimeOut
<1>2. ch \in Channel
  BY NowFacts DEF StreamInv, StreamTypeOK, TimeOut, Subscribing
<1>3. /\ stream' \in [Stream -> Place] /\ ~Subscribing(s)'
      /\ stream'[s].offs = stream[s].offs
      /\ \A t \in Stream : t # s => stream'[t] = stream[t]
  <2>1. stream[s].offs \in SUBSET Channel
    BY DEF StreamInv, StreamTypeOK, Place
  <2>. QED BY <2>1, <1>1, OnwardFacts DEF StreamInv
<1>4. /\ handlers' \in [Channel -> Stream \cup {Nobody}] /\ handlers'[ch] = Nobody
      /\ \A c \in Channel : c # ch => handlers'[c] = handlers[c]
  BY <1>1, <1>2 DEF StreamInv, StreamTypeOK
<1>5. Listeners(ch) \subseteq Stream /\ Awaiting(ch) \subseteq Stream
  BY DEF Listeners, Members, Awaiting
<1>6. StreamTypeOK'
  <2>1. \A t \in Stream : Subscribing(t)' => stream'[t].n \in DOMAIN Channels[t]
    BY <1>3 DEF StreamInv, StreamTypeOK, Subscribing, At
  <2>2. \A t \in Stream, c \in Channel : member'[t][c] # Nobody => c \in stream'[t].offs
    BY <1>1, <1>3 DEF StreamInv, StreamTypeOK
  <2>3. deaf' \subseteq Stream \X Channel
    BY <1>1, <1>2, <1>5 DEF StreamInv, StreamTypeOK
  <2>. QED BY <2>1, <2>2, <2>3, <1>1, <1>3, <1>4 DEF StreamInv, StreamTypeOK
<1>7. HandlersInTable'
  <2>. SUFFICES ASSUME NEW t \in Stream, NEW c \in Channel,
                       member'[t][c] # Nobody, <<t, c>> \notin deaf'
                PROVE  handlers'[c] = member'[t][c]
    BY DEF HandlersInTable
  <2>1. handlers[c] = member[t][c] /\ member[t][c] # Nobody
    BY <1>1 DEF StreamInv, HandlersInTable
  <2>2. c # ch
    BY <2>1, <1>1 DEF Listeners, Members
  <2>. QED BY <2>1, <2>2, <1>1, <1>4
<1>8. AwaitedInTable'
  <2>. SUFFICES ASSUME NEW t \in Stream, Subscribing(t)', <<t, Now(t)'>> \notin deaf'
                PROVE  handlers'[Now(t)'] = t
    BY DEF AwaitedInTable
  <2>1. t # s
    BY <1>3
  <2>2. Subscribing(t) /\ Now(t)' = Now(t) /\ Now(t) \in Channel
    BY <2>1, <1>3, NowFacts DEF StreamInv, StreamTypeOK, Subscribing, At, Now
  <2>3. handlers[Now(t)] = t
    BY <2>2, <1>1 DEF StreamInv, AwaitedInTable
  <2>4. Now(t) # ch
    BY <2>1, <2>2, <2>3, <1>1 DEF Awaiting
  <2>. QED BY <2>2, <2>3, <2>4, <1>4
<1>9. SetsAreAsked'
  BY <1>1, <1>4 DEF StreamInv, SetsAreAsked
<1>. QED BY <1>6, <1>7, <1>8, <1>9 DEF StreamInv

LEMMA StartedKeeps ==
  ASSUME StreamInv, NEW s \in Stream, Started(s)
  PROVE  StreamInv'
<1>1. /\ stream' = [stream EXCEPT ![s].pc = "open"]
      /\ UNCHANGED <<handlers, member, here, wire, heard, torn, deaf>>
  BY DEF Started
<1>2. /\ stream' \in [Stream -> Place] /\ ~Subscribing(s)'
      /\ \A t \in Stream : stream'[t].offs = stream[t].offs /\ (t # s => stream'[t] = stream[t])
  BY <1>1 DEF StreamInv, StreamTypeOK, Place, Subscribing, At
<1>3. StreamTypeOK'
  BY <1>1, <1>2 DEF StreamInv, StreamTypeOK, Subscribing, At
<1>4. HandlersInTable' /\ SetsAreAsked'
  BY <1>1 DEF StreamInv, HandlersInTable, SetsAreAsked, Asked
<1>5. AwaitedInTable'
  BY <1>1, <1>2 DEF StreamInv, AwaitedInTable, Subscribing, At, Now
<1>. QED BY <1>3, <1>4, <1>5 DEF StreamInv

LEMMA VanishKeeps ==
  ASSUME StreamInv, NEW s \in Stream, Vanish(s)
  PROVE  StreamInv'
BY DEF StreamInv, StreamTypeOK, HandlersInTable, AwaitedInTable, SetsAreAsked, Asked, Vanish,
       Subscribing, At, Now

\* A set that is taken out loses all its handlers at once, and who awaits it is deaf.
LEMMA TeardownKeeps ==
  ASSUME StreamInv, NEW S \in SUBSET Stream, Teardown(S), UNCHANGED <<here, heard>>
  PROVE  StreamInv'
<1>. DEFINE Gone == UNION {Awaiting(c) \X {c} : c \in {d \in Channel : Empties(S, d)}}
<1>1. /\ member' = [s \in Stream |-> [c \in Channel |->
              IF s \in Leavers(S, c) THEN Nobody ELSE member[s][c]]]
      /\ handlers' = [c \in Channel |-> IF Empties(S, c) THEN Nobody ELSE handlers[c]]
      /\ wire' = [c \in Channel |->
              IF Empties(S, c) THEN Append(wire[c], Unsubscription) ELSE wire[c]]
      /\ stream' = [s \in Stream |-> [stream[s] EXCEPT !.closed = @ \/ s \in S]]
      /\ torn' = torn \cup {s \in S : ~At(s, "open")} /\ deaf' = deaf \cup Gone
  BY DEF Teardown
<1>2. /\ stream' \in [Stream -> Place]
      /\ \A s \in Stream : /\ stream'[s].pc = stream[s].pc /\ stream'[s].n = stream[s].n
                           /\ stream'[s].offs = stream[s].offs
  <2>. SUFFICES ASSUME NEW s \in Stream
                PROVE  /\ stream'[s] \in Place
                       /\ stream'[s].pc = stream[s].pc /\ stream'[s].n = stream[s].n
                       /\ stream'[s].offs = stream[s].offs
    BY <1>1
  <2>1. stream[s] \in Place
    BY DEF StreamInv, StreamTypeOK
  <2>2. stream'[s] = [stream[s] EXCEPT !.closed = stream[s].closed \/ s \in S]
    BY <1>1
  <2>3. (stream[s].closed \/ s \in S) \in BOOLEAN
    OBVIOUS
  <2>. QED BY <2>1, <2>2, <2>3 DEF Place
<1>3. \A c \in Channel : ~Empties(S, c) => handlers'[c] = handlers[c] /\ wire'[c] = wire[c]
  BY <1>1
<1>4. \A c \in Channel : Empties(S, c) => handlers'[c] = Nobody
  BY <1>1
<1>5. \A s \in Stream, c \in Channel : member'[s][c] # Nobody =>
        member'[s][c] = member[s][c] /\ s \notin Leavers(S, c)
  BY <1>1
<1>6. StreamTypeOK'
  <2>1. handlers' \in [Channel -> Stream \cup {Nobody}]
    BY <1>1 DEF StreamInv, StreamTypeOK
  <2>2. member' \in [Stream -> [Channel -> Stream \cup {Nobody}]]
    BY <1>1 DEF StreamInv, StreamTypeOK
  <2>3. wire' \in [Channel -> Seq(Command)]
    BY <1>1, AppendFacts, CommandFacts DEF StreamInv, StreamTypeOK, Unsubscription, Command
  <2>4. Gone \subseteq Stream \X Channel
    BY DEF Awaiting
  <2>5. torn' \subseteq Stream
    BY <1>1 DEF StreamInv, StreamTypeOK
  <2>6. \A s \in Stream : Subscribing(s)' => stream'[s].n \in DOMAIN Channels[s]
    BY <1>2 DEF StreamInv, StreamTypeOK, Subscribing, At
  <2>7. \A s \in Stream, c \in Channel : member'[s][c] # Nobody => c \in stream'[s].offs
    BY <1>2, <1>5 DEF StreamInv, StreamTypeOK
  <2>. QED BY <1>1, <1>2, <2>1, <2>2, <2>3, <2>4, <2>5, <2>6, <2>7 DEF StreamInv, StreamTypeOK
<1>7. HandlersInTable'
  <2>. SUFFICES ASSUME NEW t \in Stream, NEW c \in Channel,
                       member'[t][c] # Nobody, <<t, c>> \notin deaf'
                PROVE  handlers'[c] = member'[t][c]
    BY DEF HandlersInTable
  <2>1. /\ member'[t][c] = member[t][c] /\ t \notin Leavers(S, c)
        /\ handlers[c] = member[t][c] /\ handlers[c] # Nobody
    BY <1>1, <1>5 DEF StreamInv, HandlersInTable
  <2>2. t \in Listeners(c)
    BY <2>1 DEF Listeners, Members
  <2>. QED BY <2>1, <2>2, <1>3 DEF Empties
<1>8. AwaitedInTable'
  <2>. SUFFICES ASSUME NEW t \in Stream, Subscribing(t)', <<t, Now(t)'>> \notin deaf'
                PROVE  handlers'[Now(t)'] = t
    BY DEF AwaitedInTable
  <2>1. Subscribing(t) /\ Now(t)' = Now(t) /\ Now(t) \in Channel
    BY <1>2, NowFacts DEF StreamInv, StreamTypeOK, Subscribing, At, Now
  <2>2. handlers[Now(t)] = t
    BY <2>1, <1>1 DEF StreamInv, AwaitedInTable
  <2>3. t \in Awaiting(Now(t))
    BY <2>1, <2>2 DEF Awaiting
  <2>4. ~Empties(S, Now(t))
    BY <2>1, <2>3, <1>1
  <2>. QED BY <2>1, <2>2, <2>4, <1>3
<1>9. SetsAreAsked'
  BY <1>3, <1>4 DEF StreamInv, SetsAreAsked
<1>. QED BY <1>6, <1>7, <1>8, <1>9 DEF StreamInv

LEMMA EndKeeps ==
  ASSUME StreamInv, NEW s \in Stream, End(s)
  PROVE  StreamInv'
BY TeardownKeeps DEF End

LEMMA MessageKeeps ==
  ASSUME StreamInv, NEW ch \in Channel, Message(ch)
  PROVE  StreamInv'
<1>1. PICK W \in SUBSET {s \in Listeners(ch) : ~stream[s].closed /\ s \notin here} : Teardown(W)
  BY DEF Message
<1>2. W \in SUBSET Stream
  BY DEF Listeners, Members
<1>. QED BY <1>1, <1>2, TeardownKeeps DEF Message

\* The last command that Redis does decides what it sends.
LEMMA AnswerKeeps ==
  ASSUME StreamInv, NEW ch \in Channel, Answer(ch)
  PROVE  StreamInv'
<1>. DEFINE c == Head(wire[ch])
<1>1. /\ wire[ch] # <<>> /\ wire' = [wire EXCEPT ![ch] = Tail(wire[ch])]
      /\ heard' = IF c.cmd = "SUBSCRIBE" THEN heard \cup {ch} ELSE heard \ {ch}
      /\ stream' = [s \in Stream |->
              IF c = Subscription(s) /\ At(s, "waiting") /\ Now(s) = ch
                THEN [stream[s] EXCEPT !.pc = "answered"] ELSE stream[s]]
      /\ UNCHANGED <<handlers, member, here, torn, deaf>>
  BY DEF Answer
<1>2. wire[ch] \in Seq(Command)
  BY DEF StreamInv, StreamTypeOK
<1>3. /\ wire' \in [Channel -> Seq(Command)] /\ wire'[ch] = Tail(wire[ch])
      /\ \A d \in Channel : d # ch => wire'[d] = wire[d] /\ (d \in heard' <=> d \in heard)
  BY <1>1, <1>2, TailFacts DEF StreamInv, StreamTypeOK
<1>4. /\ stream' \in [Stream -> Place]
      /\ \A s \in Stream : /\ stream'[s].n = stream[s].n /\ stream'[s].offs = stream[s].offs
                           /\ Subscribing(s)' <=> Subscribing(s)
  <2>. SUFFICES ASSUME NEW s \in Stream
                PROVE  /\ stream'[s] \in Place
                       /\ stream'[s].n = stream[s].n /\ stream'[s].offs = stream[s].offs
                       /\ Subscribing(s)' <=> Subscribing(s)
    BY <1>1
  <2>1. stream[s] \in Place
    BY DEF StreamInv, StreamTypeOK
  <2>2. CASE stream'[s] = stream[s]
    BY <2>1, <2>2 DEF Subscribing, At
  <2>3. CASE At(s, "waiting") /\ stream'[s] = [stream[s] EXCEPT !.pc = "answered"]
    BY <2>1, <2>3 DEF Place, Subscribing, At
  <2>. QED BY <2>2, <2>3, <1>1
<1>5. StreamTypeOK'
  <2>1. heard' \subseteq Channel
    BY <1>1 DEF StreamInv, StreamTypeOK
  <2>. QED BY <2>1, <1>1, <1>3, <1>4 DEF StreamInv, StreamTypeOK
<1>6. HandlersInTable'
  BY <1>1 DEF StreamInv, HandlersInTable
<1>7. AwaitedInTable'
  BY <1>1, <1>4 DEF StreamInv, AwaitedInTable, Now
<1>8. SetsAreAsked'
  <2>. SUFFICES ASSUME NEW d \in Channel, handlers[d] # Nobody
                PROVE  Asked(wire'[d], d \in heard')
    BY <1>1 DEF SetsAreAsked
  <2>1. CASE d # ch
    BY <2>1, <1>3 DEF StreamInv, SetsAreAsked, Asked
  <2>2. CASE d = ch
    <3>1. wire[ch][Len(wire[ch])].cmd = "SUBSCRIBE"
      BY <2>2, <1>1 DEF StreamInv, SetsAreAsked, Asked
    <3>2. CASE Tail(wire[ch]) = <<>>
      <4>1. c.cmd = "SUBSCRIBE"
        BY <3>1, <3>2, <1>1, <1>2, TailFacts
      <4>. QED BY <4>1, <3>2, <2>2, <1>1, <1>3 DEF Asked
    <3>3. CASE Tail(wire[ch]) # <<>>
      BY <3>1, <3>3, <2>2, <1>1, <1>2, <1>3, TailFacts DEF Asked
    <3>. QED BY <3>2, <3>3
  <2>. QED BY <2>1, <2>2
<1>. QED BY <1>5, <1>6, <1>7, <1>8 DEF StreamInv

\* Who comes back has no handler left.
LEMMA ReconnectKeeps ==
  ASSUME StreamInv, NEW s \in Stream, Reconnect(s)
  PROVE  StreamInv'
<1>1. /\ stream' = [stream EXCEPT ![s] = Away] /\ here' = here \cup {s}
      /\ torn' = torn \ {s} /\ deaf' = {p \in deaf : p[1] # s}
      /\ UNCHANGED <<handlers, member, wire, heard>>
      /\ \A c \in Channel : member[s][c] = Nobody
  BY DEF Reconnect
<1>2. Away \in Place
  BY DEF Away, Place
<1>3. /\ stream' \in [Stream -> Place] /\ ~Subscribing(s)'
      /\ \A t \in Stream : t # s => stream'[t] = stream[t]
  BY <1>1, <1>2 DEF StreamInv, StreamTypeOK, Subscribing, At, Away
<1>4. \A t \in Stream, c \in Channel : t # s /\ <<t, c>> \in deaf => <<t, c>> \in deaf'
  BY <1>1
<1>5. StreamTypeOK'
  <2>1. \A t \in Stream : Subscribing(t)' => stream'[t].n \in DOMAIN Channels[t]
    BY <1>3 DEF StreamInv, StreamTypeOK, Subscribing, At
  <2>2. \A t \in Stream, c \in Channel : member'[t][c] # Nobody => c \in stream'[t].offs
    BY <1>1, <1>3 DEF StreamInv, StreamTypeOK
  <2>. QED BY <2>1, <2>2, <1>1, <1>3 DEF StreamInv, StreamTypeOK
<1>6. HandlersInTable'
  <2>. SUFFICES ASSUME NEW t \in Stream, NEW c \in Channel,
                       member[t][c] # Nobody, <<t, c>> \notin deaf'
                PROVE  handlers[c] = member[t][c]
    BY <1>1 DEF HandlersInTable
  <2>. QED BY <1>1, <1>4 DEF StreamInv, HandlersInTable
<1>7. AwaitedInTable'
  <2>. SUFFICES ASSUME NEW t \in Stream, Subscribing(t)', <<t, Now(t)'>> \notin deaf'
                PROVE  handlers[Now(t)'] = t
    BY <1>1 DEF AwaitedInTable
  <2>1. t # s /\ Subscribing(t) /\ Now(t)' = Now(t) /\ Now(t) \in Channel
    BY <1>3, NowFacts DEF StreamInv, StreamTypeOK, Subscribing, At, Now
  <2>. QED BY <2>1, <1>4 DEF StreamInv, AwaitedInTable
<1>8. SetsAreAsked'
  BY <1>1 DEF StreamInv, SetsAreAsked
<1>. QED BY <1>5, <1>6, <1>7, <1>8 DEF StreamInv

-----------------------------------------------------------------------------
(* Theorems.                                                                *)

LEMMA StreamInitInv ==
  ASSUME StreamInit
  PROVE  StreamInv
<1>1. Away \in Place
  BY DEF Away, Place
<1>2. StreamTypeOK
  BY <1>1 DEF StreamInit, StreamTypeOK, Subscribing, At, Away
<1>3. HandlersInTable /\ AwaitedInTable /\ SetsAreAsked
  BY DEF StreamInit, HandlersInTable, AwaitedInTable, SetsAreAsked, Subscribing, At, Away
<1>. QED BY <1>2, <1>3 DEF StreamInv

\* Types, handlers in the table unless somebody took their set out, sets that are
\* awaited, and a subscription as the last command of every channel with a set: in
\* every state of the table of redis.ts and the streams of route.ts.
THEOREM StreamInvariant == StreamSpec => []StreamInv
<1>1. StreamInv /\ [StreamNext]_streamVars => StreamInv'
  <2>. SUFFICES ASSUME StreamInv, [StreamNext]_streamVars PROVE StreamInv'
    OBVIOUS
  <2>1. ASSUME NEW s \in Stream,
               Open(s) \/ Create(s) \/ Join(s) \/ Subscribed(s) \/ TimeOut(s)
               \/ Started(s) \/ Vanish(s) \/ End(s) \/ Reconnect(s)
        PROVE  StreamInv'
    BY <2>1, OpenKeeps, CreateKeeps, JoinKeeps, SubscribedKeeps, TimeOutKeeps, StartedKeeps,
       VanishKeeps, EndKeeps, ReconnectKeeps
  <2>2. ASSUME NEW ch \in Channel, Answer(ch) \/ Message(ch)
        PROVE  StreamInv'
    BY <2>2, AnswerKeeps, MessageKeeps
  <2>3. CASE UNCHANGED streamVars
    BY <2>3 DEF streamVars, StreamInv, StreamTypeOK, HandlersInTable, AwaitedInTable,
                SetsAreAsked, Asked, Subscribing, At, Now
  <2>. QED BY <2>1, <2>2, <2>3 DEF StreamNext
<1>. QED BY <1>1, StreamInitInv, PTL DEF StreamSpec

\* The table, the streams and the commands to Redis keep their shapes, for any number
\* of connections and channels (handlers of redis.ts, start of route.ts).
THEOREM StreamTypes == StreamSpec => []StreamTypeOK
<1>1. StreamInv => StreamTypeOK
  BY DEF StreamInv
<1>. QED BY <1>1, StreamInvariant, PTL

\* Every handler that was added hears its channel once Redis has caught up, unless
\* somebody else's time-out or leave took its set out (subscribe of redis.ts).
THEOREM ListenersReached == StreamSpec => []ListenersAreReached
<1>1. StreamInv => ListenersAreReached
  BY DEF StreamInv, HandlersInTable, SetsAreAsked, Asked, ListenersAreReached
<1>. QED BY <1>1, StreamInvariant, PTL

-----------------------------------------------------------------------------
(* Both.                                                                    *)

\* Whoever moves next, an account, a desk request, an event from Clerk or a stream, both
\* halves keep their shapes: neither module takes a step of the other for its own.
THEOREM SessionsTypes == AccountsSpec /\ StreamSpec => []SessionsTypeOK
<1>1. AccountsTypeOK /\ StreamTypeOK => SessionsTypeOK
  BY DEF SessionsTypeOK
<1>. QED BY <1>1, AccountsTypes, StreamTypes, PTL
===============================================================================
