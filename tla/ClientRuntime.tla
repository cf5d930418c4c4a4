-------------------------- MODULE ClientRuntime --------------------------
(***************************************************************************)
(* The Workspace CLI of one paired device: commands that run in several    *)
(* processes on one workspace directory (a `lease hold` in one terminal, a *)
(* `sync` in another), against the server and against other devices.       *)
(*                                                                         *)
(* A command is a sequence of awaits: it reads the local state without a   *)
(* lock, calls the API, and only then takes the workspace lock, reads the  *)
(* state again and writes it.  A step here ends at each point where        *)
(* another process, another device or a crash can come between.  The lock  *)
(* is the exclusive lock the file is meant to be, and materialization the  *)
(* all-or-nothing step that module Materialization shows it to be.         *)
(*                                                                         *)
(* state.revision only ever answers "was the state written since I read    *)
(* it", so it is the set `changed` of the processes whose reading is old.  *)
(* connectionStatus is "lease_active" exactly when the state has a lease;  *)
(* replicaStatus and lastErrorCode are shown to the user and read by no    *)
(* command, so that marking a conflict is a write that changes only the    *)
(* revision.                                                               *)
(***************************************************************************)
EXTENDS Integers, Sequences, FiniteSets

CONSTANTS
  Procs,         \* CLI processes on this workspace
  Free,          \* the lock's value when nobody holds it
  Contents,      \* manifests
  Empty,         \* the manifest of version 0
  MaxVersion,    \* bound on the versions of the workspace
  MaxLeases      \* bound on the leases this device is granted

ASSUME ProcsAssumption == Free \notin Procs
ASSUME ContentsAssumption == Empty \in Contents
ASSUME ClientBoundsAssumption == {MaxVersion, MaxLeases} \subseteq Nat

VARIABLES
  history,       \* the server's versions, from sync version 1 on
  remoteLease,   \* this device's lease in force at the server
  granted,       \* leases granted to this device so far
  revoked,       \* the device was revoked (by logout)
  state,         \* .ngapd/state.json
  changed,       \* processes that read the state before its last write
  files,         \* the working directory
  registered,    \* the workspace is in the root registry
  credential,    \* the device credential is in the credential store
  token,         \* the lease whose token is in the credential store
  lock,          \* holder of workspace.lock
  at,            \* where each process is in its command
  mem            \* what its command has read

server  == <<history, remoteLease, granted, revoked>>
local   == <<state, changed>>
secrets == <<credential, token>>
process == <<at, mem>>
vars    == <<server, local, files, registered, secrets, lock, process>>

NoLease == 0
Leases  == 0..MaxLeases
SyncVersion    == Len(history)
Content(v) == IF v = 0 THEN Empty ELSE history[v]

LeaseCommands == {"acquire", "takeover", "renew", "release"}
SyncCommands  == {"sync", "useLocal", "useServer"}
Commands      == {"connect", "logout"} \cup LeaseCommands \cup SyncCommands

Points == {"idle", "register", "observe", "create", "materialize",
           "token", "grant", "put", "persist", "undoGrant", "undoToken",
           "renew", "renewed", "release", "clear", "cleared", "invalidate",
           "invalidated", "lock", "commit", "adopt", "report", "recheck", "dropToken",
           "reread", "resolve", "resolveFailed", "forgetLeases",
           "forgetDevice"}

Blank == [op |-> "none", base |-> 0, lease |-> NoLease, token |-> NoLease,
          version |-> 0, content |-> Empty, here |-> FALSE]

TypeOK ==
  /\ history \in Seq(Contents) /\ SyncVersion <= MaxVersion
  /\ remoteLease \in 0..granted /\ granted \in Leases /\ revoked \in BOOLEAN
  /\ state \in [base : 0..MaxVersion, manifest : Contents, exists : BOOLEAN,
                lease : Leases, leaseBase : 0..MaxVersion]
  /\ changed \subseteq Procs
  /\ files \in Contents
  /\ registered \in BOOLEAN /\ credential \in BOOLEAN /\ token \in Leases
  /\ lock \in Procs \cup {Free}
  /\ at \in [Procs -> Points]
  /\ mem \in [Procs -> [op : Commands \cup {"none"}, base : 0..MaxVersion,
                        lease : Leases, token : Leases, version : 0..MaxVersion,
                        content : Contents, here : BOOLEAN]]

-----------------------------------------------------------------------------
(* Steps of a command.                                                     *)

Goto(p, point) == at' = [at EXCEPT ![p] = point]
Recall(p, m)   == mem' = [mem EXCEPT ![p] = m]
Proceed(p, point) == Goto(p, point) /\ UNCHANGED mem
End(p) == Goto(p, "idle") /\ Recall(p, Blank)

Unlocked == lock = Free
(* acquireLock gives up after LOCK_TIMEOUT_MS with STATE_BUSY. *)
Busy(p) == lock \notin {Free, p}

ReadState(p) == changed' = changed \ {p} /\ UNCHANGED state

(* writeState parses what it is to write: a lease whose base is behind the  *)
(* state's is refused (STATE_INVALID), and the command fails.              *)
Valid(s) == s.lease # NoLease => s.leaseBase >= s.base
WriteState(p, s) ==
  /\ Valid(s)
  /\ state' = s
  /\ changed' = changed \cup (Procs \ {p})

(* validateLease and the device's authentication, at the server. *)
Accepted(l, k) == ~revoked /\ l = remoteLease /\ k = l /\ l # NoLease

WithActiveLease(s, l, base) == [s EXCEPT !.lease = l, !.leaseBase = base]
WithoutActiveLease(s) == [s EXCEPT !.lease = NoLease, !.leaseBase = 0]
MarkLeaseOrBaseInvalid(s) == WithoutActiveLease(s)
MarkConflict(s) == s

(* requireState, requireLeasedState: what each command asks of the state.  *)
Admits(op, s) ==
  CASE op = "connect" -> TRUE
    [] op \in {"acquire", "takeover"} -> s.exists
    [] OTHER -> s.lease # NoLease

AfterObserving(op, s) ==
  CASE op = "connect" -> IF ~s.exists THEN "create" ELSE "materialize"
    [] op \in {"acquire", "takeover"} -> "grant"
    [] OTHER -> "token"

(* What the rest of the command uses of the state it has read. *)
Noting(m, s) ==
  CASE m.op = "acquire" -> [m EXCEPT !.base = s.base]
    [] m.op \in {"renew", "release"} -> [m EXCEPT !.lease = s.lease]
    [] OTHER -> m

(* The first read of a command; a connect has asked the server before. *)
Observe(p, op) ==
  /\ IF op = "connect" THEN at[p] = "observe" ELSE at[p] = "idle" /\ registered
  /\ Admits(op, state)
  /\ ReadState(p)
  /\ Recall(p, Noting([mem[p] EXCEPT !.op = op], state))
  /\ Goto(p, AfterObserving(op, state))
  /\ UNCHANGED <<server, files, registered, secrets, lock>>

AfterToken(op) ==
  CASE op = "renew" -> "renew" [] op = "release" -> "release"
    [] op = "useServer" -> "reread" [] OTHER -> "lock"

(* accessToken and requireLeaseToken. *)
RequireLeaseToken(p) ==
  /\ at[p] = "token"
  /\ \/ /\ credential /\ ~revoked /\ token # NoLease
        /\ Recall(p, [mem[p] EXCEPT !.token = token])
        /\ Goto(p, AfterToken(mem[p].op))
     \/ End(p)
  /\ UNCHANGED <<server, local, files, registered, secrets, lock>>

-----------------------------------------------------------------------------
(* connect.                                                                *)

GetMetadata(p) ==
  /\ at[p] = "idle"
  /\ credential /\ ~revoked
  /\ Recall(p, [Blank EXCEPT !.op = "connect", !.version = SyncVersion,
                             !.here = ~registered])
  /\ Goto(p, "register")
  /\ UNCHANGED <<server, local, files, registered, secrets, lock>>

Register(p) ==
  /\ at[p] = "register"
  /\ registered' = (registered \/ mem[p].here)
  /\ Proceed(p, "observe")
  /\ UNCHANGED <<server, local, files, secrets, lock>>

(* The state file is created under the lock; the process that finds it      *)
(* created meanwhile undoes its registration.                               *)
CreateState(p) ==
  /\ at[p] = "create"
  /\ \/ /\ Unlocked /\ ~state.exists
        /\ WriteState(p, [state EXCEPT !.exists = TRUE])
        /\ Proceed(p, "materialize")
        /\ UNCHANGED registered
     \/ /\ Unlocked /\ state.exists
        /\ registered' = (registered /\ ~mem[p].here)
        /\ End(p)
        /\ UNCHANGED local
     \/ Busy(p) /\ End(p) /\ UNCHANGED <<local, registered>>
  /\ UNCHANGED <<server, files, secrets, lock>>

RevisionIgnored(p) == TRUE
RevisionHeld(p) == p \notin changed

(* materializeWorkspace, of connect and of use_server: under the lock, and  *)
(* only on the state the command has read.  A file that differs from the    *)
(* base is kept beside the target's, so that the directory may then hold    *)
(* more than the target.  A target newer than the base of the lease in the  *)
(* state cannot be written: all of it is rolled back.                      *)
Materialize(p) ==
  LET target == Content(mem[p].version)
  IN /\ at[p] = "materialize"
     /\ \/ /\ Unlocked /\ RevisionHeld(p)
           /\ WriteState(p, [state EXCEPT !.base = mem[p].version,
                                          !.manifest = target])
           /\ \/ files \in {state.manifest, target} /\ files' = target
              \/ files \notin {state.manifest, target} /\ files' \in Contents
        \/ /\ Unlocked /\ RevisionHeld(p)
           /\ WriteState(p, state)               \* rolled back, and marked failed
           /\ UNCHANGED files
        \/ UNCHANGED <<local, files>>
     /\ End(p)
     /\ UNCHANGED <<server, registered, secrets, lock>>

-----------------------------------------------------------------------------
(* lease acquire and takeover.                                             *)

Grantable(p) ==
  /\ credential /\ ~revoked
  /\ granted < MaxLeases
  /\ mem[p].op = "acquire" => remoteLease = NoLease /\ mem[p].base = SyncVersion

GrantLease(p) ==
  /\ at[p] = "grant"
  /\ \/ /\ Grantable(p)
        /\ granted' = granted + 1
        /\ remoteLease' = granted + 1
        /\ \/ /\ Recall(p, [mem[p] EXCEPT !.lease = granted + 1, !.base = SyncVersion])
              /\ Goto(p, "put")
           \/ End(p)                               \* the answer is lost
     \/ End(p) /\ UNCHANGED <<granted, remoteLease>>
  /\ UNCHANGED <<history, revoked, local, files, registered, secrets, lock>>

PutLeaseToken(p) ==
  /\ at[p] = "put"
  /\ token' = mem[p].lease
  /\ Proceed(p, "persist")
  /\ UNCHANGED <<server, local, files, registered, credential, lock>>

PersistLeaseGrant(p) ==
  LET next == WithActiveLease(state, mem[p].lease, mem[p].base)
  IN /\ at[p] = "persist"
     /\ \/ /\ Unlocked /\ RevisionHeld(p)
           /\ WriteState(p, next)
           /\ End(p)
        \/ /\ Busy(p) \/ ~RevisionHeld(p) \/ ~Valid(next)
           /\ Proceed(p, "undoGrant")
           /\ UNCHANGED local
     /\ UNCHANGED <<server, files, registered, secrets, lock>>

UndoGrant(p) ==
  /\ at[p] = "undoGrant"
  /\ \/ Accepted(mem[p].lease, mem[p].lease) /\ remoteLease' = NoLease
     \/ UNCHANGED remoteLease
  /\ Proceed(p, "undoToken")
  /\ UNCHANGED <<history, granted, revoked, local, files, registered, secrets, lock>>

-----------------------------------------------------------------------------
(* lease renew, lease release; lease hold is renew after renew, then        *)
(* release.                                                                 *)

RenewLease(p) ==
  /\ at[p] = "renew"
  /\ \/ /\ Accepted(mem[p].lease, mem[p].token)
        /\ Recall(p, [mem[p] EXCEPT !.base = SyncVersion])
        /\ Goto(p, "renewed")
     \/ ~Accepted(mem[p].lease, mem[p].token) /\ Proceed(p, "invalidate")
     \/ End(p)
  /\ UNCHANGED <<server, local, files, registered, secrets, lock>>

(* The lease of the answer is written whole, its base included, onto        *)
(* whatever else the state has become; a base the state has passed by a     *)
(* sync meanwhile is refused.                                              *)
PersistRenewal(p) ==
  LET next == WithActiveLease(state, mem[p].lease, mem[p].base)
  IN /\ at[p] = "renewed"
     /\ \/ Unlocked /\ state.lease = mem[p].lease /\ WriteState(p, next)
        \/ (Busy(p) \/ state.lease # mem[p].lease \/ ~Valid(next)) /\ UNCHANGED local
     /\ End(p)
     /\ UNCHANGED <<server, files, registered, secrets, lock>>

ReleaseLease(p) ==
  /\ at[p] = "release"
  /\ \/ /\ Accepted(mem[p].lease, mem[p].token)
        /\ remoteLease' = NoLease
        /\ Proceed(p, "clear") \/ End(p)
     \/ /\ ~Accepted(mem[p].lease, mem[p].token)
        /\ Proceed(p, "invalidate")
        /\ UNCHANGED remoteLease
     \/ End(p) /\ UNCHANGED remoteLease
  /\ UNCHANGED <<history, granted, revoked, local, files, registered, secrets, lock>>

(* The token's slot is emptied before the state is looked at. *)
DeleteLeaseToken(p) ==
  /\ at[p] \in {"clear", "invalidate", "undoToken", "dropToken"}
  /\ token' = NoLease
  /\ \/ at[p] = "clear" /\ Proceed(p, "cleared")
     \/ at[p] = "invalidate" /\ Proceed(p, "invalidated")
     \/ at[p] \in {"undoToken", "dropToken"} /\ End(p)
  /\ UNCHANGED <<server, local, files, registered, credential, lock>>

ClearLocalLease(p) ==
  /\ at[p] = "cleared"
  /\ \/ /\ Unlocked /\ state.lease = mem[p].lease
        /\ WriteState(p, WithoutActiveLease(state))
     \/ (Busy(p) \/ state.lease # mem[p].lease) /\ UNCHANGED local
  /\ End(p)
  /\ UNCHANGED <<server, files, registered, secrets, lock>>

InvalidateLocalLease(p) ==
  /\ at[p] = "invalidated"
  /\ \/ /\ Unlocked /\ state.lease = mem[p].lease
        /\ WriteState(p, MarkLeaseOrBaseInvalid(state))
     \/ (Busy(p) \/ state.lease # mem[p].lease) /\ UNCHANGED local
  /\ End(p)
  /\ UNCHANGED <<server, files, registered, secrets, lock>>

-----------------------------------------------------------------------------
(* sync and conflict use-local.                                            *)

(* A failed sync looks again whether its lease is gone (Recheck). *)
Fail(p) == IF mem[p].op = "sync" THEN Proceed(p, "recheck") ELSE End(p)

(* The base the commit names: sync names the one the directory was last     *)
(* known to hold, use_local the server's, which it means to overwrite.      *)
ServerBase(op, s) == s.leaseBase
CommitBase(op, s) == IF op = "sync" THEN s.base ELSE s.leaseBase

(* sync returns changed: true, and the command prints "Workspace            *)
(* synchronized." with the version of the state.                            *)
Report(p, content, version) ==
  /\ Recall(p, [Blank EXCEPT !.op = mem[p].op, !.content = content, !.version = version])
  /\ Goto(p, "report")

Return(p) ==
  /\ at[p] = "report"
  /\ End(p)
  /\ UNCHANGED <<server, local, files, registered, secrets, lock>>

(* Nothing to do, a base the lease does not stand on (marked a conflict,    *)
(* and reported as synchronized), or the commit is begun under the lock.    *)
BeginSync(p) ==
  /\ at[p] = "lock"
  /\ \/ /\ Unlocked /\ state.lease # NoLease
        /\ mem[p].op = "sync" /\ files = state.manifest
        /\ End(p)
        /\ UNCHANGED <<local, lock>>
     \/ /\ Unlocked /\ state.lease # NoLease
        /\ mem[p].op = "sync" /\ files # state.manifest
        /\ CommitBase("sync", state) # state.leaseBase
        /\ WriteState(p, MarkConflict(state))
        /\ Report(p, files, state.base)
        /\ UNCHANGED lock
     \/ /\ Unlocked /\ state.lease # NoLease
        /\ mem[p].op = "sync" =>
             files # state.manifest /\ CommitBase("sync", state) = state.leaseBase
        /\ lock' = p
        /\ Recall(p, [mem[p] EXCEPT !.content = files, !.lease = state.lease,
                                    !.base = CommitBase(mem[p].op, state)])
        /\ Goto(p, "commit")
        /\ UNCHANGED local
     \/ /\ Busy(p) \/ (Unlocked /\ state.lease = NoLease)
        /\ Fail(p)
        /\ UNCHANGED <<local, lock>>
  /\ UNCHANGED <<server, files, registered, secrets>>

(* persistRemoteFailure, and the lock given back on every path. *)
LeaveLocked(p) == UNCHANGED lock /\ Fail(p)
GiveUp(p) == lock' = Free /\ Fail(p)

Commit(p) ==
  LET ok == Accepted(mem[p].lease, mem[p].token)
  IN /\ at[p] = "commit"
     /\ \/ /\ ok /\ mem[p].base = SyncVersion /\ SyncVersion < MaxVersion
           /\ history' = Append(history, mem[p].content)
           /\ \/ /\ Recall(p, [mem[p] EXCEPT !.version = SyncVersion + 1])
                 /\ Goto(p, "adopt")
                 /\ UNCHANGED lock
              \/ GiveUp(p)                         \* the answer is lost
           /\ UNCHANGED local
        \/ /\ ok /\ mem[p].base # SyncVersion
           /\ WriteState(p, MarkConflict(state))
           /\ GiveUp(p)
           /\ UNCHANGED history
        \/ /\ ~ok
           /\ WriteState(p, MarkLeaseOrBaseInvalid(state))
           /\ GiveUp(p)
           /\ UNCHANGED history
        \/ GiveUp(p) /\ UNCHANGED <<history, local>>
     /\ UNCHANGED <<remoteLease, granted, revoked, files, registered, secrets>>

(* What the directory held when it was scanned is the new base, whatever    *)
(* the user has written since.                                              *)
RescannedManifest(p) == files
AdoptedManifest(p) == mem[p].content

AdoptCommit(p) ==
  /\ at[p] = "adopt"
  /\ WriteState(p, [state EXCEPT !.base = mem[p].version,
                                 !.manifest = AdoptedManifest(p),
                                 !.leaseBase = mem[p].version])
  /\ Report(p, mem[p].content, mem[p].version)
  /\ lock' = Free
  /\ UNCHANGED <<server, files, registered, secrets>>

(* deleteLeaseSecretIfStateCleared. *)
Recheck(p) ==
  /\ at[p] = "recheck"
  /\ \/ state.lease = NoLease /\ Proceed(p, "dropToken")
     \/ state.lease # NoLease /\ End(p)
  /\ UNCHANGED <<server, local, files, registered, secrets, lock>>

-----------------------------------------------------------------------------
(* conflict use-server: the API is asked before the lock is taken.         *)

Reread(p) ==
  /\ at[p] = "reread"
  /\ ReadState(p)
  /\ \/ /\ state.lease # NoLease
        /\ Recall(p, [mem[p] EXCEPT !.lease = state.lease])
        /\ Goto(p, "resolve")
     \/ state.lease = NoLease /\ End(p)
  /\ UNCHANGED <<server, files, registered, secrets, lock>>

ResolveUseServer(p) ==
  /\ at[p] = "resolve"
  /\ \/ /\ Accepted(mem[p].lease, mem[p].token)
        /\ Recall(p, [mem[p] EXCEPT !.version = SyncVersion])
        /\ Goto(p, "materialize")
     \/ ~Accepted(mem[p].lease, mem[p].token) /\ Proceed(p, "resolveFailed")
     \/ End(p)
  /\ UNCHANGED <<server, local, files, registered, secrets, lock>>

PersistResolveFailure(p) ==
  /\ at[p] = "resolveFailed"
  /\ \/ /\ Unlocked /\ RevisionHeld(p)
        /\ WriteState(p, MarkLeaseOrBaseInvalid(state))
     \/ (Busy(p) \/ ~RevisionHeld(p)) /\ UNCHANGED local
  /\ End(p)
  /\ UNCHANGED <<server, files, registered, secrets, lock>>

-----------------------------------------------------------------------------
(* auth logout.                                                            *)

RevokeCurrentDevice(p) ==
  /\ at[p] = "idle"
  /\ credential
  /\ revoked' = TRUE
  /\ remoteLease' = NoLease
  /\ \/ Goto(p, "forgetLeases") /\ Recall(p, [Blank EXCEPT !.op = "logout"])
     \/ UNCHANGED process                          \* the answer is lost
  /\ UNCHANGED <<history, granted, local, files, registered, secrets, lock>>

(* Only the slots of registered workspaces are emptied. *)
ForgetLeases(p) ==
  /\ at[p] = "forgetLeases"
  /\ token' = IF registered THEN NoLease ELSE token
  /\ Proceed(p, "forgetDevice")
  /\ UNCHANGED <<server, local, files, registered, credential, lock>>

ForgetDevice(p) ==
  /\ at[p] = "forgetDevice"
  /\ credential' = FALSE
  /\ End(p)
  /\ UNCHANGED <<server, local, files, registered, token, lock>>

-----------------------------------------------------------------------------
(* The user, the other devices, time and crashes.                          *)

EditFiles(c) ==
  /\ files' = c
  /\ UNCHANGED <<server, local, registered, secrets, lock, process>>

(* Another device takes the workspace over and publishes. *)
PublishElsewhere(c) ==
  /\ SyncVersion < MaxVersion
  /\ c # Content(SyncVersion)
  /\ history' = Append(history, c)
  /\ remoteLease' = NoLease
  /\ UNCHANGED <<granted, revoked, local, files, registered, secrets, lock, process>>

(* The lease expires, is taken over, or its right to write is withdrawn. *)
LoseLease ==
  /\ remoteLease # NoLease
  /\ remoteLease' = NoLease
  /\ UNCHANGED <<history, granted, revoked, local, files, registered, secrets, lock,
                 process>>

(* A killed process leaves its lock file behind; the next process finds its *)
(* pid dead and removes it.                                                 *)
Crash(p) ==
  /\ at[p] # "idle"
  /\ lock' = IF lock = p THEN Free ELSE lock
  /\ End(p)
  /\ UNCHANGED <<server, local, files, registered, secrets>>

-----------------------------------------------------------------------------
Init ==
  /\ history = <<>> /\ remoteLease = NoLease /\ granted = 0 /\ revoked = FALSE
  /\ state = [base |-> 0, manifest |-> Empty, exists |-> FALSE,
              lease |-> NoLease, leaseBase |-> 0]
  /\ changed = {} /\ files = Empty
  /\ registered = FALSE /\ credential = TRUE /\ token = NoLease
  /\ lock = Free
  /\ at = [p \in Procs |-> "idle"] /\ mem = [p \in Procs |-> Blank]

Connect(p) == GetMetadata(p) \/ Register(p) \/ CreateState(p) \/ Materialize(p)

Lease(p) ==
  \/ GrantLease(p) \/ PutLeaseToken(p) \/ PersistLeaseGrant(p) \/ UndoGrant(p)
  \/ RenewLease(p) \/ PersistRenewal(p)
  \/ ReleaseLease(p) \/ DeleteLeaseToken(p) \/ ClearLocalLease(p)
  \/ InvalidateLocalLease(p)

Sync(p) ==
  \/ BeginSync(p) \/ Commit(p) \/ AdoptCommit(p) \/ Return(p) \/ Recheck(p)
  \/ Reread(p) \/ ResolveUseServer(p) \/ PersistResolveFailure(p)

Logout(p) == RevokeCurrentDevice(p) \/ ForgetLeases(p) \/ ForgetDevice(p)

Step(p) ==
  \/ \E op \in Commands \ {"logout"} : Observe(p, op)
  \/ RequireLeaseToken(p) \/ Connect(p) \/ Lease(p) \/ Sync(p) \/ Logout(p)

Next ==
  \/ \E p \in Procs : Step(p) \/ Crash(p)
  \/ \E c \in Contents : EditFiles(c) \/ PublishElsewhere(c)
  \/ LoseLease

Spec == Init /\ [][Next]_vars

-----------------------------------------------------------------------------
(* Correctness.                                                            *)

(* The base the device believes in is real: its manifest is the one the     *)
(* server holds as that version, whichever commands, edits, lost answers    *)
(* and crashes came between.  Every later diff, upload and conflict check   *)
(* compares with it.                                                        *)
BaseIsPublished == state.base <= SyncVersion /\ state.manifest = Content(state.base)

(* A sync never publishes over a version this directory has not held: when  *)
(* the server accepts it, the local base is the newest version, although    *)
(* the lease, renewed or taken over since, already stands on a newer one.   *)
SyncBuildsOnHead ==
  [][history' # history =>
       \A p \in Procs : at'[p] # at[p] /\ mem[p].op = "sync" => state.base = SyncVersion]_vars

(* A use_server that asked the server before another process synchronized   *)
(* does not take the directory back to the older version: the compare-and-  *)
(* swap on state.revision refuses it.  A connect can: it asks for the       *)
(* version before it reads the state whose revision it then insists on.     *)
BaseNeverGoesBack ==
  [][state'.base < state.base =>
       \E p \in Procs : at'[p] # at[p] /\ mem[p].op = "connect"]_vars

(* The workspace lock is held by a command only while it commits: it is     *)
(* given back whatever the server answers, and no command ends with it.     *)
LockIsGivenBack == \A p \in Procs : lock = p <=> at[p] \in {"commit", "adopt"}

(* What sync reports as "Workspace synchronized." is on the server: the     *)
(* scanned content is the version the result names.                         *)
ReportedMeansPublished ==
  \A p \in Procs : at[p] = "report" =>
    mem[p].version \in 1..SyncVersion /\ history[mem[p].version] = mem[p].content
=============================================================================
