------------------------------ MODULE Accounts ------------------------------
(***************************************************************************)
(* Accounts, kept twice: table User, the authority, and the identity        *)
(* provider (Clerk), whose metadata caches the role and whose bans come     *)
(* back as webhook events.  Modelled are the first and every later visit    *)
(* (syncUser in apps/web/lib/server/auth.ts), the staff desk                *)
(* (lib/server/admin/staff.ts), the ban of a student's account              *)
(* (setUserActiveStatus in lib/server/admin/registrations.ts), the calls to *)
(* Clerk that follow a write without being awaited, and the webhook         *)
(* (app/api/webhooks/clerk/route.ts).                                       *)
(*                                                                          *)
(* A desk request is three steps: the caller's role is checked, the rows    *)
(* are read, the row is written; then its slot makes the calls to Clerk.    *)
(* Events arrive at least once and in any order.  Any call to Clerk may     *)
(* fail.                                                                    *)
(***************************************************************************)
EXTENDS Naturals, FiniteSets

CONSTANTS
  NULL,
  User,
  Slot,        \* desk requests at a time
  MaxDecision  \* how many changes the desk and Clerk's own console may make

ASSUME NullIsNoUser == NULL \notin User
ASSUME DecisionBound == MaxDecision \in Nat

VARIABLES
  row,      \* table User
  clerk,    \* the account at Clerk: whether it is banned, and publicMetadata.role
  events,   \* webhook events on their way: what each says of the account
  envAdmins,\* accounts whose address is in ADMIN_EMAILS, fixed at deployment
  desk,     \* desk requests, then their calls to Clerk
  visit,    \* the visits of each user, then the repair of the cached role
  decisions,\* changes made so far
  decided,  \* history: what the desk last decided of an account, if it did
  unsure,   \* history: accounts of which Clerk and the desk may disagree
  crossed   \* history: an admin was removed by a write that no count protects

accountVars == <<row, clerk, events, envAdmins, desk, visit, decisions, decided, unsure, crossed>>

Roles == {"STUDENT", "VOLUNTEER", "ADMIN"}
UserRow == [role : Roles, active : BOOLEAN]
ASSUME NullIsNoRow == NULL \notin UserRow
Event == [user : User, active : BOOLEAN]
Idle == [pc |-> "idle"]
DeskOp ==
  [pc : {"entered"}, actor : User]
  \cup [pc : {"role"}, user : User, role : Roles, stale : BOOLEAN]
  \cup [pc : {"active"}, user : User, active : BOOLEAN, role : Roles, stale : BOOLEAN]
  \cup [pc : {"ban"}, user : User, active : BOOLEAN, role : Roles]
  \cup [pc : {"get", "put", "status"}, user : User, role : Roles]
VisitOp == [pc : {"first", "get", "put"}, role : Roles]

IsActiveAdmin(u) == row[u] # NULL /\ row[u].active /\ row[u].role = "ADMIN"
ActiveAdmins == {u \in User : IsActiveAdmin(u)}

AccountsInit ==
  /\ envAdmins \in SUBSET User
  /\ row \in [User -> {NULL, [role |-> "ADMIN", active |-> TRUE]}] /\ ActiveAdmins # {}
  /\ clerk = [u \in User |-> [banned |-> FALSE, role |-> IF row[u] = NULL THEN "STUDENT" ELSE "ADMIN"]]
  /\ events = {[user |-> u, active |-> TRUE] : u \in {u \in User : row[u] = NULL}}
  /\ desk = [s \in Slot |-> Idle] /\ visit = [u \in User |-> Idle]
  /\ decisions = 0 /\ decided = [u \in User |-> NULL] /\ unsure = {} /\ crossed = FALSE

Tables == <<row, clerk, events>>

-----------------------------------------------------------------------------
(* Clerk: a change to an account is announced with the account's state.     *)

\* Two events of one account that say different things may arrive in either order.
Announce(u, active) ==
  /\ events' = events \cup {[user |-> u, active |-> active]}
  /\ unsure' = IF [user |-> u, active |-> ~active] \in events THEN unsure \cup {u} ELSE unsure

PutRole(u, role) ==
  /\ clerk' = [clerk EXCEPT ![u].role = role]
  /\ Announce(u, ~clerk[u].banned)

\* The webhook: a ban deactivates the row, its end reactivates it, an unknown
\* account gets a row, and the role is never touched.
\* Wrong on purpose: an event only ever reactivates.
ActiveAfterAnyEvent(e) == TRUE
\* Wrong on purpose: only a flag that is set is stored as one.
ActiveAfterAsSent(e) == IF e.active THEN TRUE ELSE NULL
ActiveAfter(e) == e.active
Webhook(e) ==
  /\ e \in events
  /\ row' = [row EXCEPT ![e.user] =
       IF @ = NULL THEN [role |-> "STUDENT", active |-> ActiveAfter(e)]
       ELSE [@ EXCEPT !.active = ActiveAfter(e)]]
  /\ events' \in {events, events \ {e}}
  /\ crossed' = (crossed \/ (IsActiveAdmin(e.user) /\ ~e.active))
  /\ UNCHANGED <<clerk, envAdmins, desk, visit, decisions, decided, unsure>>

\* Somebody edits a profile: an event that changes nothing.
EditProfile(u) ==
  /\ Announce(u, ~clerk[u].banned)
  /\ UNCHANGED <<row, clerk, envAdmins, desk, visit, decisions, decided, crossed>>

\* Clerk's own console bans an account, or ends the ban.
BanAtClerk(u) ==
  /\ decisions < MaxDecision /\ decisions' = decisions + 1
  /\ clerk' = [clerk EXCEPT ![u].banned = ~@]
  /\ events' = events \cup {[user |-> u, active |-> clerk[u].banned]}
  /\ unsure' = unsure \cup {u}
  /\ UNCHANGED <<row, envAdmins, desk, visit, decided, crossed>>

-----------------------------------------------------------------------------
(* Visits (syncUser).                                                       *)

\* Wrong on purpose: students are not looked up, for they need no cached role.
RepairStaff(role) == IF role = "STUDENT" THEN Idle ELSE [pc |-> "get", role |-> role]
Repair(role) == [pc |-> "get", role |-> role]

\* An account with a row: inactive, it is turned away; in ADMIN_EMAILS it is
\* made an admin; the cached role is compared afterwards, not awaited.
Visit(u) ==
  /\ visit[u] = Idle /\ row[u] # NULL /\ row[u].active
  /\ row' = [row EXCEPT ![u].role = IF u \in envAdmins THEN "ADMIN" ELSE @]
  /\ visit' = [visit EXCEPT ![u] = Repair(row'[u].role)]
  /\ UNCHANGED <<clerk, events, envAdmins, desk, decisions, decided, unsure, crossed>>

\* The first visit reads the profile at Clerk, with the cached role ...
FirstVisit(u) ==
  /\ visit[u] = Idle /\ row[u] = NULL /\ ~clerk[u].banned
  /\ visit' = [visit EXCEPT ![u] = [pc |-> "first", role |-> clerk[u].role]]
  /\ UNCHANGED <<Tables, envAdmins, desk, decisions, decided, unsure, crossed>>

\* ... and upserts: a row somebody created meanwhile is only ever raised to ADMIN.
Upsert(u) ==
  /\ visit[u].pc = "first"
  /\ LET role == IF u \in envAdmins THEN "ADMIN" ELSE visit[u].role IN
     row' = [row EXCEPT ![u] =
       IF @ = NULL THEN [role |-> role, active |-> TRUE]
       ELSE IF role = "ADMIN" THEN [@ EXCEPT !.role = "ADMIN"] ELSE @]
  /\ visit' = [visit EXCEPT ![u] = Idle]
  /\ UNCHANGED <<clerk, events, envAdmins, desk, decisions, decided, unsure, crossed>>

\* reconcileClerkRole: two calls, either of which may fail.
RepairGet(u) ==
  /\ visit[u].pc = "get"
  /\ visit' = [visit EXCEPT ![u] = IF clerk[u].role = @.role THEN Idle ELSE [@ EXCEPT !.pc = "put"]]
  /\ UNCHANGED <<Tables, envAdmins, desk, decisions, decided, unsure, crossed>>

RepairPut(u) ==
  /\ visit[u].pc = "put" /\ PutRole(u, visit[u].role)
  /\ visit' = [visit EXCEPT ![u] = Idle]
  /\ UNCHANGED <<row, envAdmins, desk, decisions, decided, crossed>>

\* The request fails, or Clerk does not answer.
LeaveVisit(u) ==
  /\ visit[u] # Idle /\ visit' = [visit EXCEPT ![u] = Idle]
  /\ UNCHANGED <<Tables, envAdmins, desk, decisions, decided, unsure, crossed>>

-----------------------------------------------------------------------------
(* The desk.                                                                *)

\* requireActor.
Enter(s, u) ==
  /\ desk[s] = Idle /\ decisions < MaxDecision /\ IsActiveAdmin(u)
  /\ desk' = [desk EXCEPT ![s] = [pc |-> "entered", actor |-> u]]
  /\ decisions' = decisions + 1
  /\ UNCHANGED <<Tables, envAdmins, visit, decided, unsure, crossed>>

\* "That is the only active admin."
\* Wrong on purpose: the caller, an admin, is thought to be enough.
CountedByCaller(u) == TRUE
Counted(u) == row[u].role = "ADMIN" => Cardinality(ActiveAdmins) > 1

\* grantRole reads the row and, when an admin is to lose the role, counts.
AskForRole(s, u, role) ==
  /\ desk[s].pc = "entered" /\ row[u] # NULL /\ row[u].role # role
  /\ role # "ADMIN" => u # desk[s].actor /\ Counted(u)
  /\ desk' = [desk EXCEPT ![s] = [pc |-> "role", user |-> u, role |-> role, stale |-> FALSE]]
  /\ UNCHANGED <<Tables, envAdmins, visit, decisions, decided, unsure, crossed>>

\* setStaffActive counts before it deactivates an admin; setUserActiveStatus
\* does not count.
AskForActive(s, u, active, counts) ==
  /\ desk[s].pc = "entered" /\ row[u] # NULL /\ row[u].active # active
  /\ ~active => u # desk[s].actor
  /\ (counts /\ ~active) => Counted(u)
  /\ desk' = [desk EXCEPT ![s] = [pc |-> "active", user |-> u, active |-> active, role |-> row[u].role,
                                  stale |-> ~counts]]
  /\ UNCHANGED <<Tables, envAdmins, visit, decisions, decided, unsure, crossed>>

\* When an admin goes, the counts of the others are out of date.
Outdated(s) == [t \in Slot |-> IF t # s /\ desk[t].pc \in {"role", "active"}
                               THEN [desk[t] EXCEPT !.stale = TRUE] ELSE desk[t]]
Land(s, u, account, next) ==
  LET removes == IsActiveAdmin(u) /\ ~(account.active /\ account.role = "ADMIN") IN
  /\ row' = [row EXCEPT ![u] = account]
  /\ desk' = [(IF removes THEN Outdated(s) ELSE desk) EXCEPT ![s] = next]
  /\ crossed' = (crossed \/ (removes /\ desk[s].stale))

\* setRole: PostgreSQL first, then the cache.
SetRole(s) ==
  LET r == desk[s] IN
  /\ r.pc = "role"
  /\ Land(s, r.user, [row[r.user] EXCEPT !.role = r.role],
          [pc |-> "get", user |-> r.user, role |-> r.role])
  /\ UNCHANGED <<clerk, events, envAdmins, visit, decisions, decided, unsure>>

\* Two decisions about one account whose calls to Clerk overlap, or an event
\* from before the decision, leave the outcome to chance.
SyncingTo(u) == \E t \in Slot : desk[t].pc \in {"ban", "status"} /\ desk[t].user = u
SetActive(s) ==
  LET r == desk[s] IN
  /\ r.pc = "active"
  /\ Land(s, r.user, [row[r.user] EXCEPT !.active = r.active],
          [pc |-> "ban", user |-> r.user, active |-> r.active, role |-> r.role])
  /\ decided' = [decided EXCEPT ![r.user] = r.active]
  /\ unsure' = IF SyncingTo(r.user) THEN unsure \cup {r.user} ELSE unsure
  /\ UNCHANGED <<clerk, events, envAdmins, visit, decisions>>

\* syncClerkUserStatus: ban or unban, and whatever comes of it ...
Ban(s) ==
  LET r == desk[s] IN
  /\ r.pc = "ban"
  /\ clerk' = [clerk EXCEPT ![r.user].banned = ~r.active]
  /\ IF clerk[r.user].banned = r.active THEN Announce(r.user, r.active) ELSE UNCHANGED <<events, unsure>>
  /\ desk' = [desk EXCEPT ![s] = [pc |-> "status", user |-> r.user,
                                  role |-> IF r.active THEN r.role ELSE "STUDENT"]]
  /\ UNCHANGED <<row, envAdmins, visit, decisions, decided, crossed>>

BanFails(s) ==
  LET r == desk[s] IN
  /\ r.pc = "ban"
  /\ desk' = [desk EXCEPT ![s] = [pc |-> "status", user |-> r.user,
                                  role |-> IF r.active THEN r.role ELSE "STUDENT"]]
  /\ unsure' = IF clerk[r.user].banned = r.active THEN unsure \cup {r.user} ELSE unsure
  /\ UNCHANGED <<Tables, envAdmins, visit, decisions, decided, crossed>>

\* ... the cached role, written in any case.
PutStatus(s) ==
  /\ desk[s].pc = "status" /\ PutRole(desk[s].user, desk[s].role)
  /\ desk' = [desk EXCEPT ![s] = Idle]
  /\ UNCHANGED <<row, envAdmins, visit, decisions, decided, crossed>>

\* reconcileClerkRole after setRole.
DeskGet(s) ==
  /\ desk[s].pc = "get"
  /\ desk' = [desk EXCEPT ![s] = IF clerk[@.user].role = @.role THEN Idle ELSE [@ EXCEPT !.pc = "put"]]
  /\ UNCHANGED <<Tables, envAdmins, visit, decisions, decided, unsure, crossed>>

DeskPut(s) ==
  /\ desk[s].pc = "put" /\ PutRole(desk[s].user, desk[s].role)
  /\ desk' = [desk EXCEPT ![s] = Idle]
  /\ UNCHANGED <<row, envAdmins, visit, decisions, decided, crossed>>

\* A refusal, a failed call or a crash; a decision that landed and never
\* reached Clerk leaves the two apart.
LeaveDesk(s) ==
  /\ desk[s] # Idle /\ desk' = [desk EXCEPT ![s] = Idle]
  /\ unsure' = IF desk[s].pc = "ban" THEN unsure \cup {desk[s].user} ELSE unsure
  /\ UNCHANGED <<Tables, envAdmins, visit, decisions, decided, crossed>>

VisitSteps(u) == \/ Visit(u) \/ FirstVisit(u) \/ Upsert(u)
                 \/ RepairGet(u) \/ RepairPut(u) \/ LeaveVisit(u)
DeskSteps(s) ==
  \/ \E u \in User : \/ Enter(s, u)
                     \/ \E role \in Roles : AskForRole(s, u, role)
                     \/ \E active, counts \in BOOLEAN : AskForActive(s, u, active, counts)
  \/ SetRole(s) \/ SetActive(s) \/ Ban(s) \/ BanFails(s) \/ PutStatus(s)
  \/ DeskGet(s) \/ DeskPut(s) \/ LeaveDesk(s)

AccountsNext ==
  \/ \E s \in Slot : DeskSteps(s)
  \/ \E u \in User : VisitSteps(u) \/ EditProfile(u) \/ BanAtClerk(u)
  \/ \E e \in events : Webhook(e)

\* People with an account that works keep coming back, a visit comes to an end,
\* and Clerk answers now and then.
AccountsFairness ==
  \A u \in User : /\ SF_accountVars(Visit(u)) /\ WF_accountVars(Upsert(u) \/ LeaveVisit(u))
                  /\ SF_accountVars(RepairGet(u)) /\ SF_accountVars(RepairPut(u))

AccountsSpec == AccountsInit /\ [][AccountsNext]_accountVars /\ AccountsFairness

-----------------------------------------------------------------------------
(* Properties.                                                              *)

\* Rows, events and requests have their shapes, and a request is about an account that
\* has a row.
AccountsTypeOK ==
  /\ row \in [User -> UserRow \cup {NULL}] /\ events \subseteq Event /\ envAdmins \subseteq User
  /\ clerk \in [User -> [banned : BOOLEAN, role : Roles]]
  /\ desk \in [Slot -> DeskOp \cup {Idle}] /\ visit \in [User -> VisitOp \cup {Idle}]
  /\ decisions \in 0..MaxDecision /\ decided \in [User -> BOOLEAN \cup {NULL}]
  /\ unsure \subseteq User /\ crossed \in BOOLEAN
  /\ \A s \in Slot : desk[s].pc \notin {"idle", "entered"} => row[desk[s].user] # NULL

\* "Self-demotion locks the last admin out of the console during an event ...
\* the recovery is a database session" (staff.ts 84-86): somebody can still
\* administer, however the demotions and deactivations of several admins
\* interleave, unless one of them fell between another's count and write, an
\* account was banned where nobody counts, or Clerk deactivated it.
AnAdminRemains == ActiveAdmins # {} \/ crossed

\* When nothing is under way for an account, its row says what the desk last
\* decided, although each of its own calls to Clerk comes back as an event
\* that writes the row once more: unless a ban failed, two decisions
\* overlapped, or events that disagree were on their way together.
QuietAbout(u) ==
  /\ \A e \in events : e.user # u
  /\ \A s \in Slot : desk[s].pc \in {"ban", "status"} => desk[s].user # u
DecisionStands ==
  \A u \in User \ unsure : (decided[u] # NULL /\ QuietAbout(u)) => row[u].active = decided[u]

\* "If Clerk's update fails afterwards the role is still correct and
\* reconcileClerkRole will fix the cache on the user's next request" (auth.ts
\* 292-298): in the end the cached role of everybody who can sign in is the
\* role in the table, whatever order the earlier writes arrived in.
CacheSettles ==
  \A u \in User : <>[]((row[u] # NULL /\ row[u].active) => clerk[u].role = row[u].role)
=============================================================================
