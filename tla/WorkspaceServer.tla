------------------------- MODULE WorkspaceServer -------------------------
(***************************************************************************)
(* The server side of one task workspace: write leases, committed          *)
(* versions, idempotent commits, object uploads, and the task and project  *)
(* operations that freeze the workspace or withdraw the right to write it. *)
(* The task is one below the root of the task tree: a top-level task has   *)
(* only fewer operations (it always names its owner, and is neither moved  *)
(* nor deleted).                                                           *)
(*                                                                         *)
(* Every handler runs one database transaction that holds FOR UPDATE locks *)
(* on the project, the actor's membership and the workspace row            *)
(* (withLockedWorkspace; the lifecycle operations lock the workspace row   *)
(* too), so a transaction is one step here.  What is NOT read under those  *)
(* locks is the request's own context: the time `now` is taken, and the    *)
(* device's access token is checked, when the request arrives, which may   *)
(* be long before the locks are granted.  An action therefore has a        *)
(* parameter t, the time its request arrived, with t <= clock.             *)
(*                                                                         *)
(* A reply may be lost and a request may be sent again: both are covered,  *)
(* since any request a device could ever have sent may be served at any    *)
(* step.  Requests the server refuses without changing a row of these      *)
(* tables only write an audit row and are stuttering steps.                *)
(***************************************************************************)
EXTENDS Integers, Sequences, FiniteSets

CONSTANTS
  Devices,        \* the paired devices, each with its one connection
  NoDevice,       \* not a device
  Users,
  UserOf,         \* the user each device belongs to
  Contents,       \* manifests; a manifest stands for its objects too
  Preloaded,      \* contents whose objects other workspaces already uploaded
  Keys,           \* (operation, idempotency key) pairs
  LeaseTtl,       \* 60 s in the code
  MaxAge,         \* bound: how long a request may wait for the locks
  MaxTime,        \* bound on clock
  MaxVersion,     \* bound on syncVersion
  MaxLeases,      \* bound on the leases ever granted
  MaxCycle        \* bound on workCycle

ASSUME DevicesAssumption == NoDevice \notin Devices
ASSUME UsersAssumption == UserOf \in [Devices -> Users]
ASSUME BoundsAssumption ==
  /\ LeaseTtl \in Nat \ {0}
  /\ {MaxAge, MaxTime, MaxVersion, MaxLeases} \subseteq Nat
  /\ MaxCycle \in Nat \ {0}
ASSUME PreloadedAssumption == Preloaded \subseteq Contents

VARIABLES
  clock,           \* the server's clock
  revokedAt,       \* when each device was revoked, Never if it was not
  lifecycle,       \* of the workspace row
  workCycle,
  syncVersion,
  versions,        \* workspace_versions, from sync_version 1 on
  leases,          \* workspace_leases, in the order they were inserted
  idempotency,     \* idempotency_records
  acks,            \* history: every successful commit answer, replays included
  done,            \* the task is done (and frozen)
  owner,           \* the user who is the task's effective owner
  explicitOwner,   \* the task names its owner itself
  projectArchived,
  completions,     \* task_completion_snapshots: cycle and sync version
  outlived,        \* history: leases in force when the effective owner changed,
                   \* and whether changeOwner or moveTask changed it
  uploads,         \* uploads past their lease check, not yet registered
  stored,          \* contents whose objects are in the object store
  registered       \* contents whose objects have a workspace_objects row

head        == <<lifecycle, workCycle, syncVersion, versions>>
access      == <<leases, revokedAt, owner, explicitOwner, outlived>>
commitLog   == <<idempotency, acks>>
taskState   == <<done, projectArchived, completions>>
objects     == <<uploads, stored, registered>>
vars        == <<clock, head, access, commitLog, taskState, objects>>

Never == MaxTime + 1

Version    == [device : Devices, lease : Nat \ {0}, content : Contents]
Lease      == [device : Devices, cycle : Nat, base : Nat,
               granted : Nat, expires : Nat, revoked : BOOLEAN]
CommitAck  == [device : Devices, key : Keys, base : Nat, content : Contents,
               version : Nat]
Completion == [cycle : Nat, version : Nat]
Outlived   == [lease : Nat, by : {"change", "move"}]

(* Types, and the foreign keys of the tables: the workspace's sync_version  *)
(* is its newest row of workspace_versions, whose lease_id names a lease.   *)
TypeOK ==
  /\ clock \in 0..MaxTime
  /\ revokedAt \in [Devices -> 0..Never]
  /\ lifecycle \in {"active", "frozen", "archived", "deleted"}
  /\ workCycle \in 1..MaxCycle
  /\ syncVersion \in 0..MaxVersion
  /\ versions \in Seq(Version)
  /\ Len(versions) = syncVersion
  /\ leases \in Seq(Lease)
  /\ \A v \in 1..syncVersion : versions[v].lease <= Len(leases)
  /\ idempotency \subseteq CommitAck
  /\ acks \subseteq CommitAck
  /\ done \in BOOLEAN
  /\ owner \in Users
  /\ explicitOwner \in BOOLEAN
  /\ projectArchived \in BOOLEAN
  /\ completions \subseteq Completion
  /\ outlived \subseteq Outlived
  /\ uploads \subseteq Contents
  /\ stored \subseteq Contents
  /\ registered \subseteq Contents

-----------------------------------------------------------------------------
(* Requests and the right to write.                                        *)

(* The arrival times a request served now can have. *)
ArrivalTimes == {t \in 0..clock : clock <= t + MaxAge}

Authenticated(d, t) == t <= revokedAt[d]

(* writeAuthorizationError: an archived project reads as an archived       *)
(* workspace, and a task workspace is written by its effective owner.      *)
Writable(d) ==
  /\ lifecycle = "active"
  /\ ~projectArchived
  /\ UserOf[d] = owner

Admitted(d, t) == t \in ArrivalTimes /\ Authenticated(d, t) /\ Writable(d)

-----------------------------------------------------------------------------
(* Leases.                                                                  *)

InForce(ls) == {l \in DOMAIN ls : ~ls[l].revoked}

RevokeNothing(ls) == ls
RevokeAll(ls) == [l \in DOMAIN ls |-> [ls[l] EXCEPT !.revoked = TRUE]]

ExpireLeases(ls, t) ==
  [l \in DOMAIN ls |->
     IF ls[l].cycle = workCycle /\ ls[l].expires <= t
       THEN [ls[l] EXCEPT !.revoked = TRUE]
       ELSE ls[l]]

NewLease(d, t) ==
  [device |-> d, cycle |-> workCycle, base |-> syncVersion,
   granted |-> clock, expires |-> t + LeaseTtl, revoked |-> FALSE]

(* The expired lease is revoked even when the request is then refused: the *)
(* refusal is returned, not thrown, and the transaction commits.           *)
AcquireLease(d, base, t) ==
  /\ Admitted(d, t)
  /\ LET swept == ExpireLeases(leases, t)
     IN \/ /\ base # syncVersion \/ InForce(swept) # {}
           /\ leases' = swept
        \/ /\ base = syncVersion
           /\ InForce(swept) = {}
           /\ Len(leases) < MaxLeases
           /\ leases' = Append(swept, NewLease(d, t))
  /\ UNCHANGED <<clock, head, revokedAt, owner, explicitOwner, outlived,
                 commitLog, taskState, objects>>

TakeoverLease(d, t) ==
  /\ Admitted(d, t)
  /\ Len(leases) < MaxLeases
  /\ leases' = Append(RevokeAll(ExpireLeases(leases, t)), NewLease(d, t))
  /\ UNCHANGED <<clock, head, revokedAt, owner, explicitOwner, outlived,
                 commitLog, taskState, objects>>

(* A request that presents lease l comes from the device that was told its *)
(* token, after the grant; user, device, connection and token then match.  *)
Holds(l, t) == l \in DOMAIN leases /\ t >= leases[l].granted
               /\ Admitted(leases[l].device, t)

ValidIgnoringRevocation(l, t) ==
  /\ leases[l].expires > t
  /\ leases[l].cycle = workCycle
  /\ leases[l].base = syncVersion

ValidLease(l, t) ==
  /\ ~leases[l].revoked
  /\ leases[l].expires > t
  /\ leases[l].cycle = workCycle
  /\ leases[l].base = syncVersion

RenewLease(l, t) ==
  /\ Holds(l, t)
  /\ ValidLease(l, t)
  /\ leases' = [leases EXCEPT ![l].expires = t + LeaseTtl]
  /\ UNCHANGED <<clock, head, revokedAt, owner, explicitOwner, outlived,
                 commitLog, taskState, objects>>

ReleaseLease(l, t) ==
  /\ Holds(l, t)
  /\ ValidLease(l, t)
  /\ leases' = [leases EXCEPT ![l].revoked = TRUE]
  /\ UNCHANGED <<clock, head, revokedAt, owner, explicitOwner, outlived,
                 commitLog, taskState, objects>>

-----------------------------------------------------------------------------
(* Objects: the lease is checked in one transaction, the bytes are written *)
(* and registered after it, when the lease may be gone.                     *)

UploadObject(l, c, t) ==
  /\ Holds(l, t)
  /\ ValidLease(l, t)
  /\ uploads' = uploads \cup {c}
  /\ UNCHANGED <<clock, head, access, commitLog, taskState, stored, registered>>

PutVerified(c) ==
  /\ c \in uploads
  /\ stored' = stored \cup {c}
  /\ UNCHANGED <<clock, head, access, commitLog, taskState, uploads, registered>>

RegisterBeforeStoring(c) ==
  /\ c \in uploads
  /\ registered' = registered \cup {c}
  /\ uploads' = uploads \ {c}
  /\ UNCHANGED <<clock, head, access, commitLog, taskState, stored>>

RegisterVerifiedObject(c) ==
  /\ c \in uploads \cap stored
  /\ registered' = registered \cup {c}
  /\ uploads' = uploads \ {c}
  /\ UNCHANGED <<clock, head, access, commitLog, taskState, stored>>

(* The API process stops, or storing fails, between two steps of an upload. *)
AbandonUpload(c) ==
  /\ c \in uploads
  /\ uploads' = uploads \ {c}
  /\ UNCHANGED <<clock, head, access, commitLog, taskState, stored, registered>>

-----------------------------------------------------------------------------
(* Commits (workspace.commit and conflict use_local).                      *)

RecordsFor(d, k) == {r \in idempotency : r.device = d /\ r.key = k}

Ack(d, k, base, c, v) ==
  [device |-> d, key |-> k, base |-> base, content |-> c, version |-> v]

(* A known key answers with the recorded version, before the lease is even  *)
(* looked at, provided the request is the recorded one (request_sha256).    *)
ReplayAnyRequest(d, k, base, c) ==
  /\ \E r \in RecordsFor(d, k) : acks' = acks \cup {Ack(d, k, base, c, r.version)}
  /\ UNCHANGED <<head, leases, idempotency>>

ReplayCommit(d, k, base, c) ==
  /\ \E r \in RecordsFor(d, k) :
       /\ r.base = base
       /\ r.content = c
       /\ acks' = acks \cup {Ack(d, k, base, c, r.version)}
  /\ UNCHANGED <<head, leases, idempotency>>

RefreshNothing(ls, l, v) == ls
RefreshBase(ls, l, v) == [ls EXCEPT ![l].base = v]

SameVersion(v) == v
NextVersion(v) == v + 1

ApplyCommit(l, k, base, c, t) ==
  LET d    == leases[l].device
      next == NextVersion(syncVersion)
  IN /\ RecordsFor(d, k) = {}
     /\ ValidLease(l, t)
     /\ base = syncVersion
     /\ syncVersion < MaxVersion
     /\ versions' = Append(versions, [device |-> d, lease |-> l, content |-> c])
     /\ syncVersion' = next
     /\ leases' = RefreshBase(leases, l, next)
     /\ idempotency' = idempotency \cup {Ack(d, k, base, c, next)}
     /\ acks' = acks \cup {Ack(d, k, base, c, next)}
     /\ UNCHANGED <<lifecycle, workCycle>>

(* assertObjectsAvailable comes first, whether or not the request replays. *)
Commit(l, k, base, c, t) ==
  /\ Holds(l, t)
  /\ c \in registered \cap stored
  /\ \/ ReplayCommit(leases[l].device, k, base, c)
     \/ ApplyCommit(l, k, base, c, t)
  /\ UNCHANGED <<clock, revokedAt, owner, explicitOwner, outlived, taskState, objects>>

-----------------------------------------------------------------------------
(* Operations on the task, the project and the device.                     *)

CompleteTask ==
  /\ ~done
  /\ lifecycle = "active"
  /\ done' = TRUE
  /\ explicitOwner' = TRUE
  /\ lifecycle' = "frozen"
  /\ completions' = completions \cup {[cycle |-> workCycle, version |-> syncVersion]}
  /\ leases' = RevokeAll(leases)
  /\ UNCHANGED <<clock, workCycle, syncVersion, versions, revokedAt, owner, outlived,
                 commitLog, projectArchived, objects>>

SameCycle(n) == n
NextCycle(n) == n + 1

ReopenTask ==
  /\ done
  /\ lifecycle = "frozen"
  /\ workCycle < MaxCycle
  /\ done' = FALSE
  /\ lifecycle' = "active"
  /\ workCycle' = NextCycle(workCycle)
  /\ leases' = RevokeAll(leases)
  /\ UNCHANGED <<clock, syncVersion, versions, revokedAt, owner, explicitOwner, outlived,
                 commitLog, projectArchived, completions, objects>>

(* changeOwner on this task (explicit = TRUE assigns an owner, FALSE clears *)
(* it) or, while the task inherits its owner, on an ancestor.  The code     *)
(* refuses a frozen task; an archived one, which planTaskWorkspaceOwner-    *)
(* Change is told is active, it does not refuse.                            *)
ChangeOwner(u, explicit) ==
  /\ ~done
  /\ lifecycle \in {"active", "archived"}
  /\ owner' = u
  /\ explicitOwner' = explicit
  /\ outlived' = outlived \cup [lease : InForce(leases), by : {"change"}]
  /\ leases' = RevokeAll(leases)
  /\ UNCHANGED <<clock, head, revokedAt, commitLog, taskState, objects>>

(* moveTask of this task or of an ancestor: an inherited owner becomes the  *)
(* one of the new branch.  No lease is touched.                             *)
MoveTask(u) ==
  /\ ~done
  /\ ~explicitOwner
  /\ lifecycle # "deleted"
  /\ owner' = u
  /\ outlived' = outlived \cup
       (IF u = owner THEN {} ELSE [lease : InForce(leases), by : {"move"}])
  /\ UNCHANGED <<clock, head, leases, revokedAt, explicitOwner, commitLog, taskState, objects>>

(* archiveTask of a top-level task archives its whole subtree. *)
ArchiveTask ==
  /\ lifecycle # "deleted"
  /\ lifecycle' = "archived"
  /\ leases' = RevokeAll(leases)
  /\ UNCHANGED <<clock, workCycle, syncVersion, versions, revokedAt, owner, explicitOwner,
                 outlived, commitLog, taskState, objects>>

(* deleteTask refuses completed tasks. *)
DeleteTask ==
  /\ ~done
  /\ lifecycle # "deleted"
  /\ lifecycle' = "deleted"
  /\ leases' = RevokeAll(leases)
  /\ UNCHANGED <<clock, workCycle, syncVersion, versions, revokedAt, owner, explicitOwner,
                 outlived, commitLog, taskState, objects>>

ArchiveProject ==
  /\ ~projectArchived
  /\ projectArchived' = TRUE
  /\ leases' = RevokeAll(leases)
  /\ UNCHANGED <<clock, head, revokedAt, owner, explicitOwner, outlived, commitLog,
                 done, completions, objects>>

UnarchiveProject ==
  /\ projectArchived
  /\ projectArchived' = FALSE
  /\ UNCHANGED <<clock, head, access, commitLog, done, completions, objects>>

(* revokeDevice locks the device's rows only: neither the workspace nor its *)
(* leases.                                                                  *)
RevokeDevice(d) ==
  /\ revokedAt[d] = Never
  /\ revokedAt' = [revokedAt EXCEPT ![d] = clock]
  /\ UNCHANGED <<clock, head, leases, owner, explicitOwner, outlived, commitLog,
                 taskState, objects>>

Tick ==
  /\ clock < MaxTime
  /\ clock' = clock + 1
  /\ UNCHANGED <<head, access, commitLog, taskState, objects>>

-----------------------------------------------------------------------------
Init ==
  /\ clock = 0
  /\ revokedAt = [d \in Devices |-> Never]
  /\ lifecycle = "active"
  /\ workCycle = 1
  /\ syncVersion = 0
  /\ versions = <<>>
  /\ leases = <<>>
  /\ idempotency = {}
  /\ acks = {}
  /\ done = FALSE
  /\ owner \in Users
  /\ explicitOwner \in BOOLEAN
  /\ projectArchived = FALSE
  /\ completions = {}
  /\ outlived = {}
  /\ uploads = {}
  /\ stored = Preloaded
  /\ registered = Preloaded

LeaseStep ==
  \E t \in ArrivalTimes :
    \/ \E d \in Devices :
         \/ \E base \in 0..syncVersion : AcquireLease(d, base, t)
         \/ TakeoverLease(d, t)
    \/ \E l \in DOMAIN leases : RenewLease(l, t) \/ ReleaseLease(l, t)

ObjectStep ==
  \E c \in Contents :
    \/ \E t \in ArrivalTimes, l \in DOMAIN leases : UploadObject(l, c, t)
    \/ PutVerified(c)
    \/ RegisterVerifiedObject(c)
    \/ AbandonUpload(c)

CommitStep ==
  \E t \in ArrivalTimes, l \in DOMAIN leases, k \in Keys, c \in Contents :
    \E base \in 0..syncVersion : Commit(l, k, base, c, t)

TaskStep ==
  \/ CompleteTask
  \/ ReopenTask
  \/ \E u \in Users, explicit \in BOOLEAN : ChangeOwner(u, explicit)
  \/ \E u \in Users : MoveTask(u)
  \/ ArchiveTask
  \/ DeleteTask

Next ==
  \/ LeaseStep
  \/ ObjectStep
  \/ CommitStep
  \/ TaskStep
  \/ ArchiveProject
  \/ UnarchiveProject
  \/ \E d \in Devices : RevokeDevice(d)
  \/ Tick

Spec == Init /\ [][Next]_vars

-----------------------------------------------------------------------------
(* Correctness.                                                            *)

(* A workspace has one writer at a time: whatever acquisitions, takeovers,  *)
(* renewals and expiries interleaved, every lease but the newest is revoked. *)
OneWriter == InForce(leases) \subseteq {Len(leases)}

(* A lease that is not revoked stands at the head of a workspace that can   *)
(* be written: its cycle and base are the workspace's, and neither freezing *)
(* nor archiving nor a commit leaves it behind (validateLease compares      *)
(* them again for this).                                                    *)
LeaseAtHead ==
  \A l \in InForce(leases) :
    /\ leases[l].cycle = workCycle
    /\ leases[l].base = syncVersion
    /\ lifecycle = "active"
    /\ ~projectArchived

(* Fencing (FR-015): every version is published by the newest lease ever    *)
(* granted, so a holder that was taken over, expired or released never      *)
(* commits again, however late its request is served.                       *)
NewestLeaseWrites ==
  [][syncVersion' # syncVersion =>
       versions'[syncVersion'].lease = Len(leases)]_vars

(* Changing the owner fences: a lease that was in force when changeOwner    *)
(* changed the task's effective owner publishes nothing afterwards, even    *)
(* when a later change makes its user the owner again.                      *)
OwnerChangeFences ==
  [][syncVersion' # syncVersion =>
       [lease |-> versions'[syncVersion'].lease, by |-> "change"] \notin outlived]_vars

(* A completion snapshot is final: the version it recorded is the last one  *)
(* of its work cycle and of every earlier one, and what is published after  *)
(* a reopen belongs to later cycles.                                        *)
SnapshotIsFinal ==
  \A s \in completions : \A v \in 1..syncVersion :
    leases[versions[v].lease].cycle <= s.cycle <=> v <= s.version

(* Every answered commit is in the history: what the device was told is its *)
(* version holds its manifest, on the base it named; and a key that is used *)
(* again, with the same or another request, names the one version it made.  *)
AnsweredCommitsStand ==
  /\ \A a \in acks :
       /\ a.version = a.base + 1
       /\ a.version <= syncVersion
       /\ versions[a.version].device = a.device
       /\ versions[a.version].content = a.content
  /\ \A a, b \in acks : a.device = b.device /\ a.key = b.key => a = b

(* Every published manifest can be read back: its objects are registered    *)
(* and their bytes stored, whichever step of an upload was lost.            *)
VersionsReadable ==
  /\ registered \subseteq stored
  /\ \A v \in 1..syncVersion : versions[v].content \in registered

(* The workspace is a WorkspaceHistory: the server's versions are its       *)
(* history, and the device of the lease in force is its writer.             *)
Writer ==
  IF InForce(leases) = {} THEN NoDevice
  ELSE leases[CHOOSE l \in InForce(leases) : TRUE].device

Published ==
  [v \in 1..syncVersion |->
     [device |-> versions[v].device, content |-> versions[v].content]]

Abstract == INSTANCE WorkspaceHistory WITH
  history <- Published,
  writer  <- Writer,
  open    <- lifecycle = "active" /\ ~projectArchived

ImplementsHistory == Abstract!Spec
=============================================================================
