-------------------------- MODULE GovernanceProofs --------------------------
(***************************************************************************)
(* For any number of users, sessions, tasks and roles: the rows are well   *)
(* typed, the project has an active owner, the two tables of a join agree, *)
(* and admin modes, leases and open tasks never outlive the standing they  *)
(* rest on.                                                                *)
(***************************************************************************)
EXTENDS Governance, TLAPS

\* TypeOK without the request under way.
TablesOK ==
  /\ lifecycle \in {"active", "archived"} /\ owner \in Users
  /\ transfer \in [from : Users, to : Users] \cup {NoTransfer}
  /\ status \in [Users -> Statuses] /\ level \in [Users -> Levels] /\ joins \subseteq Users
  /\ mode \in [Sessions -> {"none", "active", "lapsed"}] /\ roles \subseteq Roles
  /\ entered \subseteq Sessions
  /\ lease \in [Workspaces -> Users \cup {Nobody}]
  /\ task \in [Tasks -> TaskRows \cup {NoTask}]

LateOK == late \in LateRows \cup {NoRequest}

\* What every transaction preserves: none of the conjuncts is inductive alone.
Grounds ==
  /\ TablesOK /\ OwnerIsActive /\ MembershipsAgree
  /\ ModesFollowStanding /\ LeasesFollowStanding /\ RemovedOwnsNothingOpen

-----------------------------------------------------------------------------
\* A session is one of a user.
LEMMA SessionUser == ASSUME NEW s \in Sessions PROVE s[1] \in Users
  BY DEF Sessions

\* The target of a request is of the kind its operation asks for.
LEMMA RequestKinds ==
  ASSUME NEW r \in Requests
  PROVE  /\ r.by \in Sessions /\ r.by[1] \in Users
         /\ r.op \in MemberOps => r.target \in Users
         /\ r.op \in RoleOps => r.target \in Roles
<1>1. r.by \in Sessions
  BY DEF Requests
<1>2. (r.op \in MemberOps => r.target \in Users) /\ (r.op \in RoleOps => r.target \in Roles)
  BY DEF Requests, MemberOps, RoleOps, ProjectOps
<1> QED
  BY <1>1, <1>2, SessionUser

\* Revoking admin modes leaves the types of modes, and none of the revoked.
LEMMA RevokedModes ==
  ASSUME TablesOK, NEW S, RevokeAdminModes(S)
  PROVE  /\ mode' \in [Sessions -> {"none", "active", "lapsed"}]
         /\ \A s \in Sessions : mode'[s] /= "none" => mode'[s] = mode[s] /\ s \notin S
  BY DEF TablesOK, RevokeAdminModes

\* So do leases.
LEMMA RevokedLeases ==
  ASSUME TablesOK, NEW W, NEW U, RevokeWorkspaceLeases(W, U)
  PROVE  /\ lease' \in [Workspaces -> Users \cup {Nobody}]
         /\ \A w \in Workspaces : lease'[w] /= Nobody =>
              /\ lease'[w] = lease[w] /\ lease'[w] \in Users
              /\ ~(w \in W /\ lease[w] \in U)
  BY DEF TablesOK, RevokeWorkspaceLeases

-----------------------------------------------------------------------------
\* Joining and membership

LEMMA JoinStep ==
  ASSUME Grounds, NEW u \in Users, CreateJoinRequest(u) PROVE Grounds'
<1> USE DEF Grounds, TablesOK, CreateJoinRequest, MayJoin, project, admin, work, Statuses, Levels
<1>1. TablesOK'
  OBVIOUS
<1>2. OwnerIsActive' /\ MembershipsAgree'
  BY DEF OwnerIsActive, MembershipsAgree
<1>3. ModesFollowStanding'
  BY SessionUser DEF ModesFollowStanding, Standing, OwnerIsActive
<1>4. LeasesFollowStanding'
  BY DEF LeasesFollowStanding, MayWrite, Standing, Blocks
<1>5. RemovedOwnsNothingOpen'
  BY DEF RemovedOwnsNothingOpen, Blocks
<1> QED
  BY <1>1, <1>2, <1>3, <1>4, <1>5

LEMMA ApproveStep ==
  ASSUME Grounds, NEW u \in Users, NEW x \in Users, Approve(u, x) PROVE Grounds'
<1> USE DEF Grounds, TablesOK, Approve, MayResolveJoin, OwnerMay, project, admin, work, Statuses, Levels
<1>1. TablesOK'
  OBVIOUS
<1>2. OwnerIsActive' /\ MembershipsAgree'
  BY DEF OwnerIsActive, MembershipsAgree
<1>3. ModesFollowStanding'
  BY SessionUser DEF ModesFollowStanding, Standing
<1>4. LeasesFollowStanding'
  BY DEF LeasesFollowStanding, MayWrite, Standing, Blocks
<1>5. RemovedOwnsNothingOpen'
  BY DEF RemovedOwnsNothingOpen, Blocks
<1> QED
  BY <1>1, <1>2, <1>3, <1>4, <1>5

LEMMA RejectStep ==
  ASSUME Grounds, NEW u \in Users, NEW x \in Users, Reject(u, x) PROVE Grounds'
<1> USE DEF Grounds, Reject, MayResolveJoin, OwnerMay, project, Statuses, Levels
<1>0. TablesOK /\ RevokeAdminModes(ModesOf(x)) /\ RevokeWorkspaceLeases(Workspaces, {x})
  OBVIOUS
<1>a. /\ mode' \in [Sessions -> {"none", "active", "lapsed"}]
      /\ \A s \in Sessions : mode'[s] /= "none" => mode'[s] = mode[s] /\ s \notin ModesOf(x)
  BY <1>0, RevokedModes
<1>b. /\ lease' \in [Workspaces -> Users \cup {Nobody}]
      /\ \A w \in Workspaces : lease'[w] /= Nobody =>
           lease'[w] = lease[w] /\ lease'[w] \in Users /\ lease[w] /= x
  BY <1>0, RevokedLeases
<1>1. TablesOK'
  BY <1>a, <1>b DEF TablesOK
<1>2. OwnerIsActive' /\ MembershipsAgree'
  BY DEF OwnerIsActive, MembershipsAgree, TablesOK
<1>3. ModesFollowStanding'
  BY SessionUser, <1>a DEF ModesFollowStanding, Standing, ModesOf, TablesOK
<1>4. LeasesFollowStanding'
  BY <1>b DEF LeasesFollowStanding, MayWrite, Standing, Blocks, TablesOK
<1>5. RemovedOwnsNothingOpen'
  BY DEF RemovedOwnsNothingOpen, Blocks, TablesOK
<1> QED
  BY <1>1, <1>2, <1>3, <1>4, <1>5

-----------------------------------------------------------------------------
\* Members and their levels

LEMMA PromoteStep ==
  ASSUME Grounds, NEW u \in Users, NEW x \in Users, Promote(u, x) PROVE Grounds'
<1> USE DEF Grounds, TablesOK, Promote, MayChangePermission, OwnerMay, project, admin, work, Levels
<1>1. TablesOK'
  OBVIOUS
<1>2. OwnerIsActive' /\ MembershipsAgree'
  BY DEF OwnerIsActive, MembershipsAgree
<1>3. ModesFollowStanding'
  BY SessionUser DEF ModesFollowStanding, Standing
<1>4. LeasesFollowStanding'
  BY DEF LeasesFollowStanding, MayWrite, Standing, Blocks
<1>5. RemovedOwnsNothingOpen'
  BY DEF RemovedOwnsNothingOpen, Blocks
<1> QED
  BY <1>1, <1>2, <1>3, <1>4, <1>5

\* Whoever is demoted loses every admin mode and the project's lease: what is
\* left of either belongs to somebody whose standing has not changed.
LEMMA DemoteStep ==
  ASSUME Grounds, NEW u \in Users, NEW x \in Users, Demote(u, x) PROVE Grounds'
<1> USE DEF Grounds, Demote, MayChangePermission, OwnerMay, project, Levels
<1>0. TablesOK /\ RevokeAdminModes(ModesOf(x)) /\ RevokeWorkspaceLeases({"project"}, {x})
  OBVIOUS
<1>a. /\ mode' \in [Sessions -> {"none", "active", "lapsed"}]
      /\ \A s \in Sessions : mode'[s] /= "none" => mode'[s] = mode[s] /\ s \notin ModesOf(x)
  BY <1>0, RevokedModes
<1>b. /\ lease' \in [Workspaces -> Users \cup {Nobody}]
      /\ \A w \in Workspaces : lease'[w] /= Nobody =>
           lease'[w] = lease[w] /\ lease'[w] \in Users /\ ~(w \in {"project"} /\ lease[w] \in {x})
  BY <1>0, RevokedLeases
<1>1. TablesOK'
  BY <1>a, <1>b DEF TablesOK
<1>2. OwnerIsActive' /\ MembershipsAgree'
  BY DEF OwnerIsActive, MembershipsAgree, TablesOK
<1>3. ModesFollowStanding'
  BY SessionUser, <1>a DEF ModesFollowStanding, Standing, ModesOf, TablesOK
<1>4. LeasesFollowStanding'
  BY <1>b DEF LeasesFollowStanding, MayWrite, Standing, Blocks, TablesOK
<1>5. RemovedOwnsNothingOpen'
  BY DEF RemovedOwnsNothingOpen, Blocks, TablesOK
<1> QED
  BY <1>1, <1>2, <1>3, <1>4, <1>5

\* MayRemove has looked at every open task; the rest goes with the member.
LEMMA RemoveStep ==
  ASSUME Grounds, NEW u \in Users, NEW x \in Users, RemoveMembership(u, x) PROVE Grounds'
<1> USE DEF Grounds, RemoveMembership, MayRemove, OwnerMay, project, Statuses, Levels
<1>0. TablesOK /\ RevokeAdminModes(ModesOf(x)) /\ RevokeWorkspaceLeases(Workspaces, {x})
  OBVIOUS
<1>a. /\ mode' \in [Sessions -> {"none", "active", "lapsed"}]
      /\ \A s \in Sessions : mode'[s] /= "none" => mode'[s] = mode[s] /\ s \notin ModesOf(x)
  BY <1>0, RevokedModes
<1>b. /\ lease' \in [Workspaces -> Users \cup {Nobody}]
      /\ \A w \in Workspaces : lease'[w] /= Nobody =>
           lease'[w] = lease[w] /\ lease'[w] \in Users /\ lease[w] /= x
  BY <1>0, RevokedLeases
<1>1. TablesOK'
  BY <1>a, <1>b DEF TablesOK
<1>2. OwnerIsActive' /\ MembershipsAgree'
  BY DEF OwnerIsActive, MembershipsAgree, TablesOK
<1>3. ModesFollowStanding'
  BY SessionUser, <1>a DEF ModesFollowStanding, Standing, ModesOf, TablesOK
<1>4. LeasesFollowStanding'
  BY <1>b DEF LeasesFollowStanding, MayWrite, Standing, Blocks, TablesOK
<1>5. RemovedOwnsNothingOpen'
  BY DEF RemovedOwnsNothingOpen, Blocks, TablesOK
<1> QED
  BY <1>1, <1>2, <1>3, <1>4, <1>5

-----------------------------------------------------------------------------
\* The project

\* An archived project has neither modes nor leases, so unarchiving it finds
\* none that might no longer stand.
LEMMA LifecycleStep ==
  ASSUME Grounds, NEW u \in Users, Archive(u) \/ Unarchive(u) PROVE Grounds'
<1> USE DEF Grounds, Archive, Unarchive, ChangeProjectLifecycle, people
<1>1. CASE Archive(u)
  <2>a. /\ mode' \in [Sessions -> {"none", "active", "lapsed"}]
        /\ \A s \in Sessions : mode'[s] = "none"
    BY <1>1, RevokedModes
  <2>b. /\ lease' \in [Workspaces -> Users \cup {Nobody}]
        /\ \A w \in Workspaces : lease'[w] = Nobody
    BY <1>1, RevokedLeases DEF TablesOK
  <2>1. TablesOK' /\ OwnerIsActive' /\ MembershipsAgree' /\ RemovedOwnsNothingOpen'
    BY <1>1, <2>a, <2>b
    DEF TablesOK, OwnerIsActive, MembershipsAgree, RemovedOwnsNothingOpen, Blocks
  <2>2. ModesFollowStanding' /\ LeasesFollowStanding'
    BY <2>a, <2>b DEF ModesFollowStanding, LeasesFollowStanding
  <2> QED
    BY <2>1, <2>2
<1>2. CASE Unarchive(u)
  <2>1. TablesOK' /\ OwnerIsActive' /\ MembershipsAgree' /\ RemovedOwnsNothingOpen'
    BY <1>2 DEF TablesOK, OwnerIsActive, MembershipsAgree, RemovedOwnsNothingOpen, Blocks
  <2>2. lifecycle = "archived"
    BY <1>2 DEF TablesOK
  <2>3. ModesFollowStanding' /\ LeasesFollowStanding'
    BY <1>2, <2>2 DEF ModesFollowStanding, LeasesFollowStanding, MayWrite
  <2> QED
    BY <2>1, <2>3
<1> QED
  BY <1>1, <1>2

\* The target of an offer that is not stale is an active member: the project
\* changes hands without ever lacking an active owner.
LEMMA AcceptStep ==
  ASSUME Grounds, NEW u \in Users, Accept(u) PROVE Grounds'
<1> USE DEF Grounds, Accept, MayAnswer, Stale, people
<1>a. /\ mode' \in [Sessions -> {"none", "active", "lapsed"}]
      /\ \A s \in Sessions : mode'[s] = "none"
  BY RevokedModes
<1>b. /\ lease' \in [Workspaces -> Users \cup {Nobody}]
      /\ \A w \in Workspaces : lease'[w] /= Nobody =>
           lease'[w] = lease[w] /\ lease'[w] \in Users /\ w /= "project"
  BY RevokedLeases
<1>1. TablesOK'
  BY <1>a, <1>b DEF TablesOK
<1>2. OwnerIsActive' /\ MembershipsAgree'
  BY DEF OwnerIsActive, MembershipsAgree, TablesOK
<1>3. ModesFollowStanding'
  BY <1>a DEF ModesFollowStanding
<1>4. LeasesFollowStanding'
  BY <1>b DEF LeasesFollowStanding, MayWrite, Standing, Blocks
<1>5. RemovedOwnsNothingOpen'
  BY DEF RemovedOwnsNothingOpen, Blocks
<1> QED
  BY <1>1, <1>2, <1>3, <1>4, <1>5

-----------------------------------------------------------------------------
\* Steps that leave standing alone

\* A step that changes nobody's standing and no task, and adds neither a mode
\* nor a lease, preserves the grounds if the offer it leaves is the owner's.
LEMMA QuietStep ==
  ASSUME Grounds, UNCHANGED <<people, lifecycle, owner, task>>,
         transfer' \in [from : Users, to : Users] \cup {NoTransfer},
         transfer' /= NoTransfer => transfer'.from = owner /\ transfer'.to /= owner,
         mode' \in [Sessions -> {"none", "active", "lapsed"}],
         \A s \in Sessions : mode'[s] /= "none" => mode[s] /= "none",
         lease' \in [Workspaces -> Users \cup {Nobody}],
         \A w \in Workspaces : lease'[w] /= Nobody => lease'[w] = lease[w],
         roles' \subseteq Roles, entered' \subseteq Sessions
  PROVE  Grounds'
<1>1. TablesOK' /\ OwnerIsActive' /\ MembershipsAgree' /\ RemovedOwnsNothingOpen'
  BY DEF Grounds, TablesOK, OwnerIsActive, MembershipsAgree, RemovedOwnsNothingOpen, Blocks, people
<1>2. ModesFollowStanding'
  BY DEF Grounds, ModesFollowStanding, Standing, people
<1>3. LeasesFollowStanding'
  BY DEF Grounds, LeasesFollowStanding, MayWrite, Standing, Blocks, people
<1> QED
  BY <1>1, <1>2, <1>3 DEF Grounds

LEMMA ProfileAndRoleStep ==
  ASSUME Grounds, NEW s \in Sessions,
         \/ \E x \in Users : UpdateProfile(s, x)
         \/ \E x \in Roles : \/ CreateProjectRole(s, x) \/ UpdateProjectRole(s, x)
                             \/ CopyProjectRole(s, x) \/ ArchiveProjectRole(s, x)
  PROVE  Grounds'
<1>1. /\ UNCHANGED <<people, project, mode, work>>
      /\ roles' \subseteq Roles
  BY DEF UpdateProfile, CreateProjectRole, UpdateProjectRole, CopyProjectRole, ArchiveProjectRole,
         admin, Grounds, TablesOK
<1> QED
  BY <1>1, QuietStep DEF Grounds, TablesOK, OwnerIsActive, project, work

LEMMA OfferStep ==
  ASSUME Grounds, NEW u \in Users,
         \/ \E x \in Users : CreateOwnershipTransfer(u, x)
         \/ Decline(u) \/ Cancel(u) \/ MarkStale(u)
  PROVE  Grounds'
<1>1. /\ UNCHANGED <<people, lifecycle, owner, admin, work>>
      /\ \/ transfer' = NoTransfer
         \/ \E x \in Users : u = owner /\ x /= owner /\ transfer' = [from |-> u, to |-> x]
  BY DEF CreateOwnershipTransfer, MayOffer, Decline, Cancel, MarkStale, Withdraw
<1> QED
  BY <1>1, QuietStep DEF Grounds, TablesOK, admin, work

LEMMA ModeStep ==
  ASSUME Grounds, NEW s \in Sessions, CloseAdminMode(s) \/ Lapse(s) \/ Invalidate(s)
  PROVE  Grounds'
<1>1. /\ UNCHANGED <<people, project, roles, work>>
      /\ mode[s] /= "none"
      /\ \E m \in {"none", "lapsed"} : mode' = [mode EXCEPT ![s] = m]
  BY DEF CloseAdminMode, Lapse, Invalidate
<1> QED
  BY <1>1, QuietStep DEF Grounds, TablesOK, OwnerIsActive, project, work

LEMMA OpenStep ==
  ASSUME Grounds, NEW s \in Sessions, OpenAdminMode(s) PROVE Grounds'
<1> USE DEF Grounds, OpenAdminMode, MayOpen, people, project, work
<1>1. TablesOK' /\ OwnerIsActive' /\ MembershipsAgree' /\ RemovedOwnsNothingOpen'
  BY DEF TablesOK, OwnerIsActive, MembershipsAgree, RemovedOwnsNothingOpen, Blocks
<1>2. ModesFollowStanding'
  BY DEF ModesFollowStanding, Standing, TablesOK
<1>3. LeasesFollowStanding'
  BY DEF LeasesFollowStanding, MayWrite, Standing, Blocks
<1> QED
  BY <1>1, <1>2, <1>3

-----------------------------------------------------------------------------
\* Every request

LEMMA HandledStep ==
  ASSUME Grounds, NEW r \in Requests, Handle(r) PROVE Grounds'
<1>0. /\ r.by \in Sessions /\ r.by[1] \in Users
      /\ r.op \in MemberOps => r.target \in Users
      /\ r.op \in RoleOps => r.target \in Roles
  BY RequestKinds
<1>1. CASE ProjectService(r)
  BY <1>0, <1>1, LifecycleStep DEF ProjectService
<1>2. CASE MembershipService(r)
  <2>1. CASE r.op = "join" /\ CreateJoinRequest(r.by[1])
    BY <1>0, <2>1, JoinStep
  <2>2. CASE ResolveJoinRequest(r)
    BY <1>0, <2>2, ApproveStep, RejectStep DEF ResolveJoinRequest, MemberOps
  <2>3. CASE r.op = "profile" /\ UpdateProfile(r.by, r.target)
    BY <1>0, <2>3, ProfileAndRoleStep DEF MemberOps
  <2>4. CASE ChangeMembershipPermission(r)
    BY <1>0, <2>4, PromoteStep, DemoteStep DEF ChangeMembershipPermission, MemberOps
  <2>5. CASE r.op = "remove" /\ RemoveMembership(r.by[1], r.target)
    BY <1>0, <2>5, RemoveStep DEF MemberOps
  <2> QED
    BY <1>2, <2>1, <2>2, <2>3, <2>4, <2>5 DEF MembershipService
<1>3. CASE OwnershipService(r)
  <2>1. CASE r.op = "offer" /\ CreateOwnershipTransfer(r.by[1], r.target)
    BY <1>0, <2>1, OfferStep DEF MemberOps
  <2>2. CASE ResolveOwnershipTransfer(r)
    BY <1>0, <2>2, AcceptStep, OfferStep DEF ResolveOwnershipTransfer
  <2> QED
    BY <1>3, <2>1, <2>2 DEF OwnershipService
<1>4. CASE AdminModeService(r)
  BY <1>0, <1>4, OpenStep, ModeStep DEF AdminModeService
<1>5. CASE RolesService(r)
  BY <1>0, <1>5, ProfileAndRoleStep DEF RolesService, RoleOps
<1> QED
  BY <1>1, <1>2, <1>3, <1>4, <1>5 DEF Handle

-----------------------------------------------------------------------------
\* Tasks and leases

LEMMA CreateTaskStep ==
  ASSUME Grounds, NEW u \in Users, NEW t \in Tasks, NEW x \in Users, CreateTask(u, t, x)
  PROVE  Grounds'
<1> USE DEF Grounds, CreateTask, people, project, admin
<1>1. TablesOK'
  BY DEF TablesOK, TaskRows
<1>2. OwnerIsActive' /\ MembershipsAgree' /\ ModesFollowStanding'
  BY DEF OwnerIsActive, MembershipsAgree, ModesFollowStanding, Standing
<1>3. LeasesFollowStanding'
  BY DEF LeasesFollowStanding, MayWrite, Standing, Blocks, TablesOK, Workspaces
<1>4. RemovedOwnsNothingOpen'
  BY DEF RemovedOwnsNothingOpen, Blocks, TablesOK
<1> QED
  BY <1>1, <1>2, <1>3, <1>4

\* Whatever state a task gets, its leases are gone, and it is open only under
\* an active owner.
LEMMA ChangedTaskStep ==
  ASSUME Grounds, NEW s \in Sessions, NEW t \in Tasks, NEW from, NEW next \in TaskRows,
         TaskStep(s, t, from, next), next.state = "open" => status[next.owner] = "active"
  PROVE  Grounds'
<1> USE DEF Grounds, TaskStep, people, project, admin
<1>a. /\ lease' \in [Workspaces -> Users \cup {Nobody}]
      /\ \A w \in Workspaces : lease'[w] /= Nobody =>
           lease'[w] = lease[w] /\ lease'[w] \in Users /\ w /= t
  BY RevokedLeases
<1>1. TablesOK'
  BY <1>a DEF TablesOK, TaskActor
<1>2. OwnerIsActive' /\ MembershipsAgree' /\ ModesFollowStanding'
  BY DEF OwnerIsActive, MembershipsAgree, ModesFollowStanding, Standing
<1>3. LeasesFollowStanding'
  BY <1>a DEF LeasesFollowStanding, MayWrite, Standing, Blocks, TablesOK, Workspaces
<1>4. RemovedOwnsNothingOpen'
  BY DEF RemovedOwnsNothingOpen, Blocks, TablesOK
<1> QED
  BY <1>1, <1>2, <1>3, <1>4

LEMMA TaskNextStep ==
  ASSUME Grounds, TaskNext PROVE Grounds'
<1>1. PICK s \in Sessions, t \in Tasks :
        \/ \E x \in Users : CreateTask(s[1], t, x) \/ ChangeOwner(s, t, x)
        \/ CompleteTask(s, t) \/ ReopenTask(s, t) \/ ArchiveTask(s, t)
  BY DEF TaskNext
<1>2. CASE \E x \in Users : CreateTask(s[1], t, x)
  BY <1>2, SessionUser, CreateTaskStep
<1>3. CASE \E x \in Users : ChangeOwner(s, t, x)
  <2>1. PICK x \in Users : ChangeOwner(s, t, x)
    BY <1>3
  <2>2. [owner |-> x, state |-> "open"] \in TaskRows
    BY DEF TaskRows
  <2> QED
    BY <2>1, <2>2, ChangedTaskStep DEF ChangeOwner
<1>4. ASSUME NEW state \in {"open", "done", "archived"}, NEW from,
             TaskStep(s, t, from, [task[t] EXCEPT !.state = state])
      PROVE  Grounds'
  <2>1. task[t] \in TaskRows /\ status[task[t].owner] = "active"
    BY <1>4 DEF TaskStep, Grounds, TablesOK
  <2>2. /\ [task[t] EXCEPT !.state = state] \in TaskRows
        /\ [task[t] EXCEPT !.state = state].owner = task[t].owner
    BY <2>1 DEF TaskRows
  <2> QED
    BY <1>4, <2>1, <2>2, ChangedTaskStep
<1> QED
  BY <1>1, <1>2, <1>3, <1>4 DEF CompleteTask, ReopenTask, ArchiveTask

LEMMA LeaseStep ==
  ASSUME Grounds, NEW w \in Workspaces, ReleaseLease(w) \/ \E u \in Users : AcquireLease(u, w)
  PROVE  Grounds'
<1>1. CASE ReleaseLease(w)
  BY <1>1, QuietStep DEF ReleaseLease, Grounds, TablesOK, OwnerIsActive, project, admin
<1>2. CASE \E u \in Users : AcquireLease(u, w)
  <2>1. PICK u \in Users : AcquireLease(u, w)
    BY <1>2
  <2> USE <2>1 DEF Grounds, AcquireLease, people, project, admin
  <2>2. TablesOK' /\ OwnerIsActive' /\ MembershipsAgree' /\ ModesFollowStanding'
    BY DEF TablesOK, OwnerIsActive, MembershipsAgree, ModesFollowStanding, Standing
  <2>3. LeasesFollowStanding'
    BY DEF LeasesFollowStanding, MayWrite, Standing, Blocks, TablesOK
  <2>4. RemovedOwnsNothingOpen'
    BY DEF RemovedOwnsNothingOpen, Blocks
  <2> QED
    BY <2>2, <2>3, <2>4
<1> QED
  BY <1>1, <1>2

-----------------------------------------------------------------------------
\* The request under way

\* It has taken no effect yet; or one, and then its key is recorded or one of
\* the versions it names is gone.
Once ==
  late /= NoRequest =>
    \/ late.effects = 0
    \/ late.effects = 1 /\ (late.recorded \/ ~late.fresh)

\* A step of somebody else's makes the request stale or leaves it as it was.
LEMMA AgedRequest ==
  ASSUME LateOK, Once, NEW rows, late' = Aged(rows) PROVE LateOK' /\ Once'
<1>1. CASE late = NoRequest
  BY <1>1 DEF Aged, LateOK, Once
<1>2. CASE late /= NoRequest
  <2> DEFINE gone == rows \cup {Row("mode", s) : s \in {s \in Sessions : mode'[s] /= mode[s]}}
             still == late.fresh /\ Expects(late.request) \cap gone = {}
  <2>1. late \in LateRows
    BY <1>2 DEF LateOK
  <2>2. late' = [late EXCEPT !.fresh = still]
    BY <1>2 DEF Aged
  <2>3. still \in BOOLEAN /\ (still => late.fresh)
    BY <2>1 DEF LateRows
  <2> HIDE DEF still
  <2>4. late' \in LateRows
    BY <2>1, <2>2, <2>3 DEF LateRows
  <2>5. /\ late'.effects = late.effects /\ late'.recorded = late.recorded
        /\ late'.fresh = still
    BY <2>1, <2>2 DEF LateRows
  <2> QED
    BY <1>2, <2>3, <2>4, <2>5 DEF LateOK, Once
<1> QED
  BY <1>1, <1>2

\* An operation without a key changes a row whose version it names: a profile,
\* a role, or the very admin mode it closes.
LEMMA UnkeyedAges ==
  ASSUME NEW r \in Requests, Handle(r), r.op \notin Keyed, Grounds
  PROVE  \/ Expects(r) \cap Increments(r) /= {}
         \/ mode'[r.by] /= mode[r.by] /\ Row("mode", r.by) \in Expects(r)
<1>0. r.by \in Sessions /\ r.op \in {"profile", "updateRole", "archiveRole", "close"}
  BY RequestKinds DEF Requests, MemberOps, RoleOps, ProjectOps, Keyed
<1>1. CASE r.op = "profile"
  <2>1. Row("member", r.target) \in Expects(r) \cap Increments(r)
    BY <1>1 DEF Expects, Increments, MemberOps
  <2> QED
    BY <2>1
<1>2. CASE r.op \in {"updateRole", "archiveRole"}
  <2>1. Row("role", r.target) \in Expects(r) \cap Increments(r)
    BY <1>2 DEF Expects, Increments
  <2> QED
    BY <2>1
<1>3. CASE r.op = "close"
  <2>1. CloseAdminMode(r.by)
    BY <1>3 DEF Handle, ProjectService, MembershipService, ResolveJoinRequest,
                ChangeMembershipPermission, OwnershipService, ResolveOwnershipTransfer,
                AdminModeService, RolesService
  <2>2. mode'[r.by] /= mode[r.by]
    BY <1>0, <2>1 DEF CloseAdminMode, Grounds, TablesOK
  <2>3. Row("mode", r.by) \in Expects(r)
    BY <1>3 DEF Expects
  <2> QED
    BY <2>2, <2>3
<1> QED
  BY <1>0, <1>1, <1>2, <1>3

LEMMA ArrivedOnce ==
  ASSUME Grounds, LateOK, Once, Arrive PROVE LateOK' /\ Once'
<1> DEFINE r     == late.request
           gone  == Increments(r)
                      \cup {Row("mode", s) : s \in {s \in Sessions : mode'[s] /= mode[s]}}
           still == late.fresh /\ Expects(r) \cap gone = {}
           keyed == r.op \in Keyed
<1>1. late \in LateRows /\ late.fresh /\ ~late.recorded /\ Handle(r)
  BY DEF Arrive, Answerable, LateOK
<1>2. late' = [[late EXCEPT !.fresh = still]
                 EXCEPT !.recorded = keyed, !.effects = @ + 1]
  BY DEF Arrive, Aged
<1>3. late.effects = 0
  BY <1>1 DEF Arrive, Once, LateRows
<1>4. keyed \/ ~still
  <2>1. SUFFICES ASSUME r.op \notin Keyed PROVE Expects(r) \cap gone /= {}
    OBVIOUS
  <2>2. r \in Requests /\ r.by \in Sessions
    BY <1>1, RequestKinds DEF LateRows
  <2>3. CASE Expects(r) \cap Increments(r) /= {}
    BY <2>3
  <2>4. CASE mode'[r.by] /= mode[r.by] /\ Row("mode", r.by) \in Expects(r)
    BY <2>2, <2>4
  <2> QED
    BY <1>1, <2>1, <2>2, <2>3, <2>4, UnkeyedAges
<1>5. still \in BOOLEAN /\ keyed \in BOOLEAN
  BY <1>1 DEF LateRows
<1> HIDE DEF still, keyed
<1>6. /\ late' \in LateRows
      /\ late'.effects = 1 /\ late'.fresh = still /\ late'.recorded = keyed
  <2> DEFINE aged == [late EXCEPT !.fresh = still]
  <2>1. aged \in LateRows /\ aged.fresh = still /\ aged.effects = 0
    BY <1>1, <1>3, <1>5 DEF LateRows
  <2>2. late' = [aged EXCEPT !.recorded = keyed, !.effects = aged.effects + 1]
    BY <1>2
  <2> HIDE DEF aged
  <2>3. late'.effects = 1 /\ late'.fresh = aged.fresh
    BY <2>1, <2>2 DEF LateRows
  <2>4. late'.recorded = keyed
    BY <2>1, <2>2, Zenon DEF LateRows
  <2>5. aged.effects + 1 \in Nat
    BY <2>1
  <2>6. late' \in LateRows
    BY <1>5, <2>1, <2>2, <2>5, Zenon DEF LateRows
  <2> QED
    BY <2>1, <2>3, <2>4, <2>6, Zenon
<1> QED
  BY <1>4, <1>6 DEF LateOK, Once

-----------------------------------------------------------------------------
\* The specification

\* What is preserved is the grounds together with the request under way.
Inv == Grounds /\ LateOK /\ Once

LEMMA InitInv == ASSUME Init PROVE Inv
<1>1. TablesOK
  BY DEF Init, TablesOK, Statuses, Levels, Workspaces
<1> QED
  BY <1>1, SessionUser
  DEF Init, Inv, Grounds, OwnerIsActive, MembershipsAgree, ModesFollowStanding,
      LeasesFollowStanding, RemovedOwnsNothingOpen, Blocks, LateOK, Once

LEMMA StepInv == ASSUME Inv, [Next]_vars PROVE Inv'
<1> USE DEF Inv
<1>1. CASE \E r \in Requests : Serve(r)
  BY <1>1, HandledStep, AgedRequest DEF Serve
<1>2. CASE \E r \in Requests : Send(r)
  <2>1. PICK r \in Requests : Send(r)
    BY <1>2
  <2>2. Grounds'
    BY <2>1, QuietStep DEF Send, Grounds, TablesOK, OwnerIsActive, people, project, admin, work
  <2>3. LateOK' /\ Once'
    BY <2>1 DEF Send, LateOK, Once, LateRows
  <2> QED
    BY <2>2, <2>3
<1>3. CASE Arrive
  <2>1. late.request \in Requests /\ Handle(late.request)
    BY <1>3 DEF Arrive, LateOK, LateRows
  <2> QED
    BY <1>3, <2>1, HandledStep, ArrivedOnce
<1>4. CASE Forget
  <2>1. Grounds'
    BY <1>4, QuietStep DEF Forget, Grounds, TablesOK, OwnerIsActive, people, project, admin, work
  <2> QED
    BY <1>4, <2>1 DEF Forget, LateOK, Once
<1>5. CASE \E s \in Sessions : Lapse(s)
  BY <1>5, ModeStep DEF Lapse, LateOK, Once
<1>6. CASE \E s \in Sessions : Invalidate(s)
  BY <1>6, ModeStep, AgedRequest DEF Invalidate
<1>7. CASE \E s \in Sessions : EnterTaskRequest(s)
  <2>1. Grounds'
    BY <1>7, QuietStep
    DEF EnterTaskRequest, Grounds, TablesOK, OwnerIsActive, people, project, admin
  <2> QED
    BY <1>7, <2>1 DEF EnterTaskRequest, LateOK, Once
<1>8. CASE \E u \in Users : RefuseStale(u)
  BY <1>8, OfferStep, AgedRequest DEF RefuseStale
<1>9. CASE TaskNext
  BY <1>9, TaskNextStep
  DEF TaskNext, CreateTask, ChangeOwner, CompleteTask, ReopenTask, ArchiveTask, TaskStep,
      LateOK, Once
<1>10. CASE \E w \in Workspaces : ReleaseLease(w) \/ \E u \in Users : AcquireLease(u, w)
  BY <1>10, LeaseStep DEF ReleaseLease, AcquireLease, LateOK, Once
<1>11. CASE UNCHANGED vars
  BY <1>11
  DEF vars, people, project, admin, work, Grounds, TablesOK, OwnerIsActive, MembershipsAgree,
      ModesFollowStanding, LeasesFollowStanding, RemovedOwnsNothingOpen, Blocks, Standing,
      MayWrite, LateOK, Once
<1> QED
  BY <1>1, <1>2, <1>3, <1>4, <1>5, <1>6, <1>7, <1>8, <1>9, <1>10, <1>11 DEF Next

LEMMA Invariance == Spec => []Inv
<1>1. Init => Inv
  BY InitInv
<1>2. Inv /\ [Next]_vars => Inv'
  BY StepInv
<1> QED
  BY <1>1, <1>2, PTL DEF Spec

\* Types and foreign keys hold in every reachable state.
THEOREM TypeCorrectness == Spec => []TypeOK
<1>1. Inv => TypeOK
  BY DEF Inv, Grounds, TablesOK, LateOK, TypeOK
<1> QED
  BY <1>1, Invariance, PTL

\* FR-029: the project always has an active owner, and a pending offer is the
\* owner's, made to somebody else.
THEOREM ActiveOwner == Spec => []OwnerIsActive
<1>1. Inv => OwnerIsActive
  BY DEF Inv, Grounds
<1> QED
  BY <1>1, Invariance, PTL

\* FR-020, FR-025: a membership is pending while one request for it is, and
\* only an active member is an admin.
THEOREM TablesAgree == Spec => []MembershipsAgree
<1>1. Inv => MembershipsAgree
  BY DEF Inv, Grounds
<1> QED
  BY <1>1, Invariance, PTL

\* FR-021, FR-031: no admin mode outlives its member's standing.
THEOREM ModesStandOnGrounds == Spec => []ModesFollowStanding
<1>1. Inv => ModesFollowStanding
  BY DEF Inv, Grounds
<1> QED
  BY <1>1, Invariance, PTL

\* FR-021, FR-029: no lease outlives its holder's right to write.
THEOREM LeasesStandOnGrounds == Spec => []LeasesFollowStanding
<1>1. Inv => LeasesFollowStanding
  BY DEF Inv, Grounds
<1> QED
  BY <1>1, Invariance, PTL

\* FR-019, FR-023: a member who is gone owns no open task.
THEOREM NothingLeftBehind == Spec => []RemovedOwnsNothingOpen
<1>1. Inv => RemovedOwnsNothingOpen
  BY DEF Inv, Grounds
<1> QED
  BY <1>1, Invariance, PTL

\* A request that is delayed or sent again takes effect at most once, by its
\* key or by the versions it names.
THEOREM AtMostOnce == Spec => []OncePerRequest
<1>1. Inv => OncePerRequest
  BY DEF Inv, Once, LateOK, LateRows, OncePerRequest
<1> QED
  BY <1>1, Invariance, PTL
=============================================================================
