----------------------------- MODULE Governance -----------------------------
(***************************************************************************)
(* One project: its memberships, owner, transfer of ownership, admin       *)
(* modes, roles, the leases its members hold and who owns its tasks.       *)
(*                                                                         *)
(* Every handler of ProjectMembershipRepository and ProjectRoleRepository  *)
(* is one transaction that first locks the project's row, so it is one     *)
(* step here.  What interleaves is what the services read before that      *)
(* transaction (AuthorizationAuditService), the requests themselves        *)
(* (delayed, or sent again because an answer was lost), and the task and   *)
(* workspace modules, whose handlers are reduced to what touches owners    *)
(* and leases.                                                             *)
(*                                                                         *)
(* Versions: a request carries the versions of the rows Expects(r) as they *)
(* were when it was sent.  Versions only grow, so all the model keeps of   *)
(* them is whether one of those rows has changed since: late.fresh.        *)
(***************************************************************************)
EXTENDS Naturals, FiniteSets

CONSTANTS
  Users,
  SessionsOfUser,  \* web sessions a user has open at once
  Tasks,           \* ids of top-level tasks
  Roles,           \* ids of project roles; one that is archived is forgotten
  Nobody,
  NoTask,
  NoTransfer,
  NoRequest,
  LateOps          \* operations whose requests may be delayed or repeated

ASSUME GovernanceAssumption ==
  /\ SessionsOfUser \in Nat \ {0}
  /\ Nobody \notin Users

Sessions   == Users \X (1..SessionsOfUser)
Workspaces == {"project"} \cup Tasks
Statuses   == {"none", "pending", "active", "removed"}

VARIABLES
  lifecycle,  \* projects.lifecycle
  owner,      \* projects.owner_membership_id
  status,     \* memberships.status; "none": no row
  level,      \* memberships.permission_level
  joins,      \* users with a pending row in membership_join_requests
  transfer,   \* the pending row of project_ownership_transfer_requests
  mode,       \* admin_mode_sessions of each web session: "none" stands for
              \* closed, expired and revoked, "lapsed" for a row that still
              \* says active when its 30 minutes or its web session are over
  roles,      \* project_logical_roles that are active
  entered,    \* task requests whose admin mode has been read
  lease,      \* holder of the lease of each workspace
  task,       \* explicit owner and state of each task
  late        \* a request that is under way, and how often it took effect

people  == <<status, level, joins>>
project == <<lifecycle, owner, transfer>>
admin   == <<mode, roles>>
work    == <<entered, lease, task>>
vars    == <<people, project, admin, work, late>>

-----------------------------------------------------------------------------
\* Who may do what

ModesOf(u)     == {s \in Sessions : s[1] = u}
Standing(u)    == status[u] = "active" /\ (u = owner \/ level[u] = "admin")
OwnerMay(u)    == status[u] = "active" /\ lifecycle = "active" /\ u = owner
Reopening(u)   == status[u] = "active" /\ u = owner

\* evaluateAdminMode, for the session and the member the mode was issued to.
Allowed(s) == mode[s] = "active" /\ lifecycle = "active" /\ Standing(s[1])

RevokeAdminModes(S) == mode' = [s \in Sessions |-> IF s \in S THEN "none" ELSE mode[s]]
RevokeWorkspaceLeases(W, U) ==
  lease' = [w \in Workspaces |-> IF w \in W /\ lease[w] \in U THEN Nobody ELSE lease[w]]

-----------------------------------------------------------------------------
\* Joining

MayJoin(u) == lifecycle = "active" /\ status[u] \in {"none", "removed"}

CreateJoinRequest(u) ==
  /\ MayJoin(u)
  /\ status' = [status EXCEPT ![u] = "pending"]
  /\ level' = [level EXCEPT ![u] = "member"]
  /\ joins' = joins \cup {u}
  /\ UNCHANGED <<project, admin, work>>

MayResolveJoin(u, x) == OwnerMay(u) /\ x \in joins /\ status[x] = "pending"

Approve(u, x) ==
  /\ MayResolveJoin(u, x)
  /\ status' = [status EXCEPT ![x] = "active"]
  /\ level' = [level EXCEPT ![x] = "member"]
  /\ joins' = joins \ {x}
  /\ UNCHANGED <<project, admin, work>>

Reject(u, x) ==
  /\ MayResolveJoin(u, x)
  /\ status' = [status EXCEPT ![x] = "removed"]
  /\ level' = [level EXCEPT ![x] = "member"]
  /\ joins' = joins \ {x}
  /\ RevokeAdminModes(ModesOf(x))
  /\ RevokeWorkspaceLeases(Workspaces, {x})
  /\ UNCHANGED <<project, roles, entered, task>>

-----------------------------------------------------------------------------
\* Members

\* A member edits the own profile, or another's in admin mode; the edit of
\* another's renews the mode, and all that is kept of it is the version.
UpdateProfile(s, x) ==
  /\ lifecycle = "active" /\ status[s[1]] = "active" /\ status[x] = "active"
  /\ x = s[1] \/ Allowed(s)
  /\ UNCHANGED <<people, project, admin, work>>

MayChangePermission(u, x) == OwnerMay(u) /\ status[x] = "active"

Promote(u, x) ==
  /\ MayChangePermission(u, x)
  /\ level' = [level EXCEPT ![x] = "admin"]
  /\ UNCHANGED <<status, joins, project, admin, work>>

\* Mutant of Demote: forgets the lease of the project's workspace.
DemoteKeepingLease(u, x) ==
  /\ MayChangePermission(u, x)
  /\ level' = [level EXCEPT ![x] = "member"]
  /\ RevokeAdminModes(ModesOf(x))
  /\ UNCHANGED <<status, joins, project, roles, work>>

Demote(u, x) ==
  /\ MayChangePermission(u, x)
  /\ level' = [level EXCEPT ![x] = "member"]
  /\ RevokeAdminModes(ModesOf(x))
  /\ RevokeWorkspaceLeases({"project"}, {x})
  /\ UNCHANGED <<status, joins, project, roles, entered, task>>

Blocks(t, x) == task[t] /= NoTask /\ task[t].state = "open" /\ task[t].owner = x

MayRemove(u, x) ==
  /\ OwnerMay(u)
  /\ status[x] = "active" /\ x /= owner
  /\ \A t \in Tasks : ~Blocks(t, x)

\* Mutant of RemoveMembership: the level stays for the next time.
RemoveKeepingLevel(u, x) ==
  /\ MayRemove(u, x)
  /\ status' = [status EXCEPT ![x] = "removed"]
  /\ RevokeAdminModes(ModesOf(x))
  /\ RevokeWorkspaceLeases(Workspaces, {x})
  /\ UNCHANGED <<level, joins, project, roles, entered, task>>

RemoveMembership(u, x) ==
  /\ MayRemove(u, x)
  /\ status' = [status EXCEPT ![x] = "removed"]
  /\ level' = [level EXCEPT ![x] = "member"]
  /\ RevokeAdminModes(ModesOf(x))
  /\ RevokeWorkspaceLeases(Workspaces, {x})
  /\ UNCHANGED <<joins, project, roles, entered, task>>

-----------------------------------------------------------------------------
\* The project's life and its owner

ChangeProjectLifecycle(u, next) ==
  /\ Reopening(u) /\ next /= lifecycle
  /\ lifecycle' = next
  /\ UNCHANGED <<people, owner, transfer, roles, entered, task>>

Archive(u) ==
  /\ ChangeProjectLifecycle(u, "archived")
  /\ RevokeAdminModes(Sessions)
  /\ RevokeWorkspaceLeases(Workspaces, Users)

Unarchive(u) == ChangeProjectLifecycle(u, "active") /\ UNCHANGED <<mode, lease>>

\* The lifecycle is not looked at, nor the actor's status: the owner's is
\* active.
MayOffer(u, x) ==
  u = owner /\ x /= owner /\ status[x] = "active" /\ transfer = NoTransfer

CreateOwnershipTransfer(u, x) ==
  /\ MayOffer(u, x)
  /\ transfer' = [from |-> u, to |-> x]
  /\ UNCHANGED <<people, lifecycle, owner, admin, work>>

\* Mutant of Stale: does not look at the membership of the target.
StaleByOwner == lifecycle /= "active" \/ owner /= transfer.from

\* The offer that is pending no longer stands on its facts.
Stale == lifecycle /= "active" \/ owner /= transfer.from \/ status[transfer.to] /= "active"

MayAnswer(u) == transfer /= NoTransfer /\ ~Stale /\ u = transfer.to
MayCancel(u) == transfer /= NoTransfer /\ ~Stale /\ u = owner

\* Mutant of Accept: the admin modes are left to the next evaluation.
AcceptKeepingModes(u) ==
  /\ MayAnswer(u)
  /\ owner' = transfer.to
  /\ transfer' = NoTransfer
  /\ RevokeWorkspaceLeases({"project"}, Users)
  /\ UNCHANGED <<people, lifecycle, admin, entered, task>>

Accept(u) ==
  /\ MayAnswer(u)
  /\ owner' = transfer.to
  /\ transfer' = NoTransfer
  /\ RevokeAdminModes(Sessions)
  /\ RevokeWorkspaceLeases({"project"}, Users)
  /\ UNCHANGED <<people, lifecycle, roles, entered, task>>

Withdraw(u) ==
  /\ transfer' = NoTransfer
  /\ UNCHANGED <<people, lifecycle, owner, admin, work>>

Decline(u) == MayAnswer(u) /\ Withdraw(u)
Cancel(u)  == MayCancel(u) /\ Withdraw(u)

\* Whatever is asked of a stale offer, by any member, is refused, and marks
\* the offer.
MarkStale(u) == transfer /= NoTransfer /\ status[u] = "active" /\ Stale /\ Withdraw(u)

-----------------------------------------------------------------------------
\* Admin mode

MayOpen(u) == lifecycle = "active" /\ Standing(u)

\* The session's earlier mode is replaced.
OpenAdminMode(s) ==
  /\ MayOpen(s[1])
  /\ mode' = [mode EXCEPT ![s] = "active"]
  /\ UNCHANGED <<people, project, roles, work>>

\* Nothing but the session, the version and the row's status is checked.
CloseAdminMode(s) ==
  /\ mode[s] /= "none"
  /\ mode' = [mode EXCEPT ![s] = "none"]
  /\ UNCHANGED <<people, project, roles, work>>

\* Thirty minutes without a protected activity, or the end of the web
\* session: nothing is written.
Lapse(s) ==
  /\ mode[s] = "active"
  /\ mode' = [mode EXCEPT ![s] = "lapsed"]
  /\ UNCHANGED <<people, project, roles, work, late>>

-----------------------------------------------------------------------------
\* Roles: the mode is evaluated, and renewed, in the role's transaction.

CreateProjectRole(s, x) ==
  /\ Allowed(s) /\ x \notin roles
  /\ roles' = roles \cup {x}
  /\ UNCHANGED <<people, project, mode, work>>

UpdateProjectRole(s, x) ==
  /\ Allowed(s) /\ x \in roles
  /\ UNCHANGED <<people, project, admin, work>>

\* An archived role, too, may be copied: x is the copy.
CopyProjectRole(s, x) == CreateProjectRole(s, x)

ArchiveProjectRole(s, x) ==
  /\ Allowed(s) /\ x \in roles
  /\ roles' = roles \ {x}
  /\ UNCHANGED <<people, project, mode, work>>

-----------------------------------------------------------------------------
\* Requests

MemberOps  == {"approve", "reject", "profile", "promote", "demote", "remove", "offer"}
RoleOps    == {"createRole", "updateRole", "copyRole", "archiveRole"}
ProjectOps == {"archive", "unarchive", "accept", "decline", "cancel", "open", "close", "join"}
Requests   ==
  [op : MemberOps, by : Sessions, target : Users]
    \cup [op : RoleOps, by : Sessions, target : Roles]
    \cup [op : ProjectOps, by : Sessions, target : {Nobody}]

\* m1_idempotency_records has no row for the other operations.
Keyed == {"join", "approve", "reject", "promote", "demote", "remove", "archive", "unarchive",
          "offer", "accept", "decline", "cancel", "open", "createRole", "copyRole"}

Row(kind, x) == <<kind, x>>

\* The rows whose versions a request names.
Expects(r) ==
  (IF r.op \in {"approve", "reject", "promote", "demote", "remove", "archive", "unarchive",
                "offer", "accept", "decline", "cancel"}
   THEN {Row("project", Nobody)} ELSE {})
    \cup (IF r.op \in MemberOps THEN {Row("member", r.target)} ELSE {})
    \cup (IF r.op \in {"approve", "reject"} THEN {Row("join", r.target)} ELSE {})
    \cup (IF r.op \in {"accept", "decline", "cancel"} THEN {Row("transfer", Nobody)} ELSE {})
    \cup (IF r.op = "open" THEN {Row("member", r.by[1])} ELSE {})
    \cup (IF r.op = "close" THEN {Row("mode", r.by)} ELSE {})
    \cup (IF r.op \in {"updateRole", "archiveRole"} THEN {Row("role", r.target)} ELSE {})

\* The rows, other than revoked modes, whose versions it increments.
Increments(r) ==
  (IF r.op \in {"archive", "unarchive", "accept"} THEN {Row("project", Nobody)} ELSE {})
    \cup (IF r.op \in MemberOps \ {"offer"} THEN {Row("member", r.target)} ELSE {})
    \cup (IF r.op = "join" THEN {Row("member", r.by[1])} ELSE {})
    \cup (IF r.op \in {"approve", "reject"} THEN {Row("join", r.target)} ELSE {})
    \cup (IF r.op \in {"accept", "decline", "cancel"} THEN {Row("transfer", Nobody)} ELSE {})
    \cup (IF r.op \in RoleOps \/ (r.op = "profile" /\ r.target /= r.by[1])
          THEN {Row("mode", r.by)} ELSE {})
    \cup (IF r.op \in {"updateRole", "archiveRole"} THEN {Row("role", r.target)} ELSE {})

\* What the services hand on to the repositories.
ResolveJoinRequest(r) ==
  (r.op = "approve" /\ Approve(r.by[1], r.target))
    \/ (r.op = "reject" /\ Reject(r.by[1], r.target))

ChangeMembershipPermission(r) ==
  (r.op = "promote" /\ Promote(r.by[1], r.target))
    \/ (r.op = "demote" /\ Demote(r.by[1], r.target))

MembershipService(r) ==
  \/ r.op = "join"    /\ CreateJoinRequest(r.by[1])
  \/ ResolveJoinRequest(r)
  \/ r.op = "profile" /\ UpdateProfile(r.by, r.target)
  \/ ChangeMembershipPermission(r)
  \/ r.op = "remove"  /\ RemoveMembership(r.by[1], r.target)

ProjectService(r) ==
  \/ r.op = "archive"   /\ Archive(r.by[1])
  \/ r.op = "unarchive" /\ Unarchive(r.by[1])

ResolveOwnershipTransfer(r) ==
  \/ r.op = "accept"  /\ Accept(r.by[1])
  \/ r.op = "decline" /\ Decline(r.by[1])
  \/ r.op = "cancel"  /\ Cancel(r.by[1])

OwnershipService(r) ==
  \/ r.op = "offer" /\ CreateOwnershipTransfer(r.by[1], r.target)
  \/ ResolveOwnershipTransfer(r)

AdminModeService(r) ==
  \/ r.op = "open"  /\ OpenAdminMode(r.by)
  \/ r.op = "close" /\ CloseAdminMode(r.by)

RolesService(r) ==
  \/ r.op = "createRole"  /\ CreateProjectRole(r.by, r.target)
  \/ r.op = "updateRole"  /\ UpdateProjectRole(r.by, r.target)
  \/ r.op = "copyRole"    /\ CopyProjectRole(r.by, r.target)
  \/ r.op = "archiveRole" /\ ArchiveProjectRole(r.by, r.target)

Handle(r) ==
  \/ ProjectService(r) \/ MembershipService(r) \/ OwnershipService(r)
  \/ AdminModeService(r) \/ RolesService(r)

\* What a step that increments these rows makes of the request under way.
Aged(rows) ==
  IF late = NoRequest THEN NoRequest
  ELSE LET gone == rows \cup {Row("mode", s) : s \in {s \in Sessions : mode'[s] /= mode[s]}}
       IN  [late EXCEPT !.fresh = @ /\ Expects(late.request) \cap gone = {}]

\* A request that is sent, served and answered.
Serve(r) == Handle(r) /\ late' = Aged(Increments(r))

\* A request is sent: the service has found its sender a member, and the
\* versions are the current ones.
Send(r) ==
  /\ late = NoRequest /\ r.op \in LateOps
  /\ r.op = "join" \/ status[r.by[1]] = "active"
  /\ late' = [request |-> r, fresh |-> TRUE, recorded |-> FALSE, effects |-> 0]
  /\ UNCHANGED <<people, project, admin, work>>

\* Mutant of Answerable: the recorded keys are not looked up.
AnswerableByVersion == late.fresh

\* It reaches its handler.  A recorded key is looked up before the versions
\* are compared; the client sends the request again when no answer came.
Answerable == late.fresh /\ ~late.recorded

Arrive ==
  /\ late /= NoRequest /\ Answerable
  /\ Handle(late.request)
  /\ late' = [Aged(Increments(late.request)) EXCEPT
                !.recorded = late.request.op \in Keyed, !.effects = @ + 1]

Forget == late /= NoRequest /\ late' = NoRequest /\ UNCHANGED <<people, project, admin, work>>

-----------------------------------------------------------------------------
\* Failures that write

\* An evaluation that refuses closes the row: the mode has lapsed, or was
\* named in another session of its user.
Invalidate(s) ==
  /\ mode[s] \in IF SessionsOfUser > 1 THEN {"lapsed", "active"} ELSE {"lapsed"}
  /\ mode' = [mode EXCEPT ![s] = "none"]
  /\ late' = Aged({})
  /\ UNCHANGED <<people, project, roles, work>>

RefuseStale(u) == MarkStale(u) /\ late' = Aged({Row("transfer", Nobody)})

-----------------------------------------------------------------------------
\* Tasks and workspaces, as far as owners and leases go

\* requireMember and requireAdminMode: transactions of their own, before that
\* of the task.
EnterTaskRequest(s) ==
  /\ Allowed(s) /\ s \notin entered
  /\ entered' = entered \cup {s}
  /\ UNCHANGED <<people, project, admin, lease, task, late>>

\* resolveTaskOperationAuthorization: the owner, or whoever was in admin mode
\* when the request came in.
TaskActor(s, t) ==
  /\ status[s[1]] = "active"
  /\ (task[t].owner = s[1] /\ UNCHANGED entered)
       \/ (s \in entered /\ entered' = entered \ {s})

\* Every task of the project must have an active owner.
OwnersResolve == \A t \in Tasks : task[t] /= NoTask => status[task[t].owner] = "active"

MayCreateTask(u) == status[u] = "active" /\ OwnersResolve

CreateTask(u, t, x) ==
  /\ task[t] = NoTask /\ MayCreateTask(u) /\ status[x] = "active"
  /\ task' = [task EXCEPT ![t] = [owner |-> x, state |-> "open"]]
  /\ UNCHANGED <<people, project, admin, entered, lease, late>>

\* Mutant of TaskStep: the owner need not be a member any more.
TaskStepOfAnyOwner(s, t, from, next) ==
  /\ task[t] /= NoTask /\ task[t].state \in from
  /\ TaskActor(s, t)
  /\ task' = [task EXCEPT ![t] = next]
  /\ RevokeWorkspaceLeases({t}, Users)
  /\ UNCHANGED <<people, project, admin, late>>

\* The state of a task changes, and its workspace's leases are revoked.
TaskStep(s, t, from, next) ==
  /\ task[t] /= NoTask /\ task[t].state \in from
  /\ status[task[t].owner] = "active"
  /\ TaskActor(s, t)
  /\ task' = [task EXCEPT ![t] = next]
  /\ RevokeWorkspaceLeases({t}, Users)
  /\ UNCHANGED <<people, project, admin, late>>

ChangeOwner(s, t, x) ==
  status[x] = "active" /\ TaskStep(s, t, {"open"}, [owner |-> x, state |-> "open"])

CompleteTask(s, t) == TaskStep(s, t, {"open"}, [task[t] EXCEPT !.state = "done"])
ReopenTask(s, t)   == TaskStep(s, t, {"done"}, [task[t] EXCEPT !.state = "open"])
ArchiveTask(s, t)  ==
  OwnersResolve /\ TaskStep(s, t, {"open", "done"}, [task[t] EXCEPT !.state = "archived"])

\* resolveWorkspaceWriteEligibility
MayWrite(u, w) ==
  /\ lifecycle = "active" /\ status[u] = "active"
  /\ IF w = "project" THEN Standing(u) ELSE Blocks(w, u)

AcquireLease(u, w) ==
  /\ lease[w] = Nobody /\ MayWrite(u, w)
  /\ lease' = [lease EXCEPT ![w] = u]
  /\ UNCHANGED <<people, project, admin, entered, task, late>>

ReleaseLease(w) ==
  /\ lease[w] /= Nobody
  /\ lease' = [lease EXCEPT ![w] = Nobody]
  /\ UNCHANGED <<people, project, admin, entered, task, late>>

-----------------------------------------------------------------------------
\* The project as createProject leaves it.
Init ==
  /\ lifecycle = "active" /\ owner \in Users /\ transfer = NoTransfer
  /\ status = [u \in Users |-> IF u = owner THEN "active" ELSE "none"]
  /\ level = [u \in Users |-> IF u = owner THEN "admin" ELSE "member"]
  /\ joins = {}
  /\ mode = [s \in Sessions |-> "none"]
  /\ roles = Roles
  /\ entered = {}
  /\ lease = [w \in Workspaces |-> Nobody]
  /\ task = [t \in Tasks |-> NoTask]
  /\ late = NoRequest

TaskNext ==
  \E s \in Sessions, t \in Tasks :
    \/ \E x \in Users : CreateTask(s[1], t, x) \/ ChangeOwner(s, t, x)
    \/ CompleteTask(s, t) \/ ReopenTask(s, t) \/ ArchiveTask(s, t)

Next ==
  \/ \E r \in Requests : Serve(r) \/ Send(r)
  \/ Arrive \/ Forget
  \/ \E s \in Sessions : Lapse(s) \/ Invalidate(s) \/ EnterTaskRequest(s)
  \/ \E u \in Users : RefuseStale(u)
  \/ TaskNext
  \/ \E w \in Workspaces : ReleaseLease(w) \/ \E u \in Users : AcquireLease(u, w)

Spec == Init /\ [][Next]_vars

-----------------------------------------------------------------------------
\* Properties

Levels    == {"admin", "member"}
TaskRows  == [owner : Users, state : {"open", "done", "archived"}]
LateRows  == [request : Requests, fresh : BOOLEAN, recorded : BOOLEAN, effects : Nat]

\* The types of the rows and their foreign keys.
TypeOK ==
  /\ lifecycle \in {"active", "archived"} /\ owner \in Users
  /\ transfer \in [from : Users, to : Users] \cup {NoTransfer}
  /\ status \in [Users -> Statuses] /\ level \in [Users -> Levels] /\ joins \subseteq Users
  /\ mode \in [Sessions -> {"none", "active", "lapsed"}] /\ roles \subseteq Roles
  /\ entered \subseteq Sessions
  /\ lease \in [Workspaces -> Users \cup {Nobody}]
  /\ task \in [Tasks -> TaskRows \cup {NoTask}]
  /\ late \in LateRows \cup {NoRequest}

\* FR-029: in every state that is committed the project has an active owner,
\* whatever becomes of an offer, of its target's membership and of the owner's.
\* An offer that is pending is the owner's, made to somebody else.
OwnerIsActive ==
  /\ status[owner] = "active"
  /\ transfer /= NoTransfer => transfer.from = owner /\ transfer.to /= owner

\* The two tables of a join agree: a membership is pending exactly while one
\* request for it is; and nobody is an admin who is not an active member, so
\* that who comes back comes back as a member (FR-020, FR-025).
MembershipsAgree ==
  \A u \in Users :
    /\ u \in joins <=> status[u] = "pending"
    /\ level[u] = "admin" => status[u] = "active"

\* FR-021, FR-031: an admin mode, used or not, is there only for an active
\* owner or admin of an active project: it goes in the transaction that takes
\* the last of its grounds away.
ModesFollowStanding ==
  \A s \in Sessions : mode[s] /= "none" => lifecycle = "active" /\ Standing(s[1])

\* FR-021, FR-029: so does a lease.
LeasesFollowStanding ==
  \A w \in Workspaces : lease[w] /= Nobody => MayWrite(lease[w], w)

\* FR-019, FR-023: no member who is gone owns a task that is still to be done.
RemovedOwnsNothingOpen ==
  \A t \in Tasks, u \in Users : Blocks(t, u) => status[u] = "active"

\* A request takes effect at most once, however often it arrives.
OncePerRequest == late /= NoRequest => late.effects <= 1

\* docs/03-permission-model.md: a member may create top-level tasks.
MembersCreateTasks == \A u \in Users : status[u] = "active" => MayCreateTask(u)
=============================================================================
