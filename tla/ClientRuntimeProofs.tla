------------------------ MODULE ClientRuntimeProofs ------------------------
(***************************************************************************)
(* For any number of CLI processes, manifests, versions and leases: the    *)
(* variables are well typed, the lock is held exactly by a command that    *)
(* commits, the local base is the server's manifest of that version, a     *)
(* sync publishes only on the newest version, and only a connect takes the *)
(* base back.  Types are dealt with first, part by part; then where a step *)
(* can lead a process, and what it does to the base; then the invariant.   *)
(***************************************************************************)
EXTENDS ClientRuntime, TLAPS

\* What a command remembers, and what state.json holds.
Mem == [op : Commands \cup {"none"}, base : 0..MaxVersion, lease : Leases,
        token : Leases, version : 0..MaxVersion, content : Contents, here : BOOLEAN]

LocalState == [base : 0..MaxVersion, manifest : Contents, exists : BOOLEAN,
               lease : Leases, leaseBase : 0..MaxVersion]

ServerOK  == /\ history \in Seq(Contents) /\ SyncVersion <= MaxVersion
             /\ remoteLease \in 0..granted /\ granted \in Leases /\ revoked \in BOOLEAN
LocalOK   == state \in LocalState /\ changed \subseteq Procs /\ files \in Contents
SecretsOK == registered \in BOOLEAN /\ credential \in BOOLEAN /\ token \in Leases
ProcessOK == at \in [Procs -> Points] /\ mem \in [Procs -> Mem]
LockOK    == lock \in Procs \cup {Free}

\* The type invariant is the conjunction of its parts.
LEMMA TypeParts == TypeOK <=> ServerOK /\ LocalOK /\ SecretsOK /\ ProcessOK /\ LockOK
  BY DEF TypeOK, ServerOK, LocalOK, SecretsOK, ProcessOK, LockOK, Mem, LocalState

\* A command may note one thing of its type and still remember well.
LEMMA MemKept ==
  ASSUME NEW m \in Mem, NEW op \in Commands \cup {"none"}, NEW v \in 0..MaxVersion,
         NEW l \in Leases, NEW c \in Contents, NEW b \in BOOLEAN
  PROVE  /\ [m EXCEPT !.op = op] \in Mem
         /\ [m EXCEPT !.base = v] \in Mem
         /\ [m EXCEPT !.lease = l] \in Mem
         /\ [m EXCEPT !.token = l] \in Mem
         /\ [m EXCEPT !.version = v] \in Mem
         /\ [m EXCEPT !.content = c] \in Mem
         /\ [m EXCEPT !.here = b] \in Mem
  BY DEF Mem

\* So may one field of the state be written.
LEMMA StateKept ==
  ASSUME NEW s \in LocalState, NEW v \in 0..MaxVersion, NEW l \in Leases, NEW c \in Contents
  PROVE  /\ [s EXCEPT !.base = v] \in LocalState
         /\ [s EXCEPT !.manifest = c] \in LocalState
         /\ [s EXCEPT !.exists = TRUE] \in LocalState
         /\ [s EXCEPT !.lease = l] \in LocalState
         /\ [s EXCEPT !.leaseBase = v] \in LocalState
  BY DEF LocalState

\* A command that begins or ends remembers nothing.
LEMMA BlankOK == Blank \in Mem /\ Blank.version = 0 /\ Blank.op = "none"
  BY ContentsAssumption, ClientBoundsAssumption DEF Blank, Mem, Leases, NoLease

\* The larger notes the actions make, one field after the other.
LEMMA MemBuilt ==
  ASSUME NEW m \in Mem, NEW op \in Commands \cup {"none"}, NEW v \in 0..MaxVersion,
         NEW l \in Leases, NEW c \in Contents, NEW b \in BOOLEAN
  PROVE  /\ [m EXCEPT !.lease = l, !.base = v] \in Mem
         /\ [m EXCEPT !.content = c, !.lease = l, !.base = v] \in Mem
         /\ [m EXCEPT !.op = op, !.content = c, !.version = v] \in Mem
         /\ [m EXCEPT !.op = op, !.version = v, !.here = b] \in Mem
<1>1. PICK n : n = [m EXCEPT !.lease = l]
  OBVIOUS
<1>2. PICK o : o = [m EXCEPT !.content = c]
  OBVIOUS
<1>3. PICK q : q = [m EXCEPT !.op = op]
  OBVIOUS
<1>4. n \in Mem /\ o \in Mem /\ q \in Mem
  BY <1>1, <1>2, <1>3, MemKept
<1>5. PICK r : r = [o EXCEPT !.lease = l]
  OBVIOUS
<1>6. PICK s : s = [q EXCEPT !.content = c]
  OBVIOUS
<1>7. PICK t : t = [q EXCEPT !.version = v]
  OBVIOUS
<1>8. r \in Mem /\ s \in Mem /\ t \in Mem
  BY <1>4, <1>5, <1>6, <1>7, MemKept
<1>9. /\ [n EXCEPT !.base = v] \in Mem
      /\ [r EXCEPT !.base = v] \in Mem
      /\ [s EXCEPT !.version = v] \in Mem
      /\ [t EXCEPT !.here = b] \in Mem
  BY <1>4, <1>8, MemKept
<1> QED
  BY <1>1, <1>2, <1>3, <1>5, <1>6, <1>7, <1>9, Zenon

\* The larger writes of the state.
LEMMA StateBuilt ==
  ASSUME NEW s \in LocalState, NEW v \in 0..MaxVersion, NEW l \in Leases, NEW c \in Contents
  PROVE  /\ WithActiveLease(s, l, v) \in LocalState
         /\ WithoutActiveLease(s) \in LocalState
         /\ [s EXCEPT !.base = v, !.manifest = c] \in LocalState
         /\ [s EXCEPT !.base = v, !.manifest = c, !.leaseBase = v] \in LocalState
<1>1. PICK n : n = [s EXCEPT !.lease = l]
  OBVIOUS
<1>2. PICK o : o = [s EXCEPT !.lease = NoLease]
  OBVIOUS
<1>3. PICK q : q = [s EXCEPT !.base = v]
  OBVIOUS
<1>10. NoLease \in Leases
  BY ClientBoundsAssumption DEF NoLease, Leases
<1>4. n \in LocalState /\ o \in LocalState /\ q \in LocalState
  BY <1>1, <1>2, <1>3, <1>10, StateKept
<1>5. PICK r : r = [q EXCEPT !.manifest = c]
  OBVIOUS
<1>6. r \in LocalState
  BY <1>4, <1>5, StateKept
<1>7. 0 \in 0..MaxVersion
  BY ClientBoundsAssumption
<1>8. /\ [n EXCEPT !.leaseBase = v] \in LocalState
      /\ [o EXCEPT !.leaseBase = 0] \in LocalState
      /\ [r EXCEPT !.leaseBase = v] \in LocalState
  BY <1>4, <1>6, <1>7, StateKept
<1> QED
  BY <1>1, <1>2, <1>3, <1>5, <1>6, <1>8, Zenon DEF WithActiveLease, WithoutActiveLease

-----------------------------------------------------------------------------
\* Where a step leaves the process that takes it.

\* A process goes to a point, remembering m.
Moves(p, point, m) ==
  /\ at' = [at EXCEPT ![p] = point]
  /\ mem' = [mem EXCEPT ![p] = m]

\* A process that goes to a point and notes what it read is still well typed.
LEMMA MovesOK ==
  ASSUME ProcessOK, NEW p \in Procs, NEW point \in Points, NEW m \in Mem, Moves(p, point, m)
  PROVE  ProcessOK'
  BY DEF ProcessOK, Moves

\* So is one that only goes on,
LEMMA ProceedOK ==
  ASSUME ProcessOK, NEW p \in Procs, NEW point \in Points, Proceed(p, point)
  PROVE  ProcessOK'
  BY DEF ProcessOK, Proceed, Goto

\* one whose command ends,
LEMMA EndOK ==
  ASSUME ProcessOK, NEW p \in Procs, End(p)
  PROVE  ProcessOK'
  BY BlankOK DEF ProcessOK, End, Goto, Recall, Points

\* and one whose command fails, or looks again whether its lease is gone.
LEMMA FailOK ==
  ASSUME ProcessOK, NEW p \in Procs, Fail(p)
  PROVE  ProcessOK'
  BY ProceedOK, EndOK DEF Fail, Points

-----------------------------------------------------------------------------
\* The points at which a command remembers the version it will materialize.
Versions == {"register", "observe", "create", "materialize"}

\* That version is one the server has; and before it has read the state, the
\* command is a connect.
VersionsKnown ==
  \A p \in Procs :
    /\ at[p] \in Versions => mem[p].version <= SyncVersion
    /\ at[p] \in Versions \ {"materialize"} => mem[p].op = "connect"

-----------------------------------------------------------------------------
\* Which actions of a command write the server, the local state, the
\* secrets and the lock; every other leaves them alone.
LEMMA Touches ==
  ASSUME NEW p \in Procs, Step(p)
  PROVE  /\ \/ GrantLease(p) \/ UndoGrant(p) \/ ReleaseLease(p)
            \/ RevokeCurrentDevice(p) \/ Commit(p) \/ UNCHANGED server
         /\ \/ CreateState(p) \/ Materialize(p) \/ PersistLeaseGrant(p) \/ PersistRenewal(p)
            \/ ClearLocalLease(p) \/ InvalidateLocalLease(p) \/ BeginSync(p) \/ Commit(p)
            \/ AdoptCommit(p) \/ PersistResolveFailure(p)
            \/ ReadState(p) /\ UNCHANGED files
            \/ UNCHANGED <<local, files>>
         /\ \/ Register(p) \/ CreateState(p) \/ PutLeaseToken(p) \/ DeleteLeaseToken(p)
            \/ ForgetLeases(p) \/ ForgetDevice(p) \/ UNCHANGED <<registered, secrets>>
         /\ BeginSync(p) \/ Commit(p) \/ AdoptCommit(p) \/ UNCHANGED lock
<1> USE DEF Step, Connect, Lease, Sync, Logout
<1>1. CASE \E op \in Commands \ {"logout"} : Observe(p, op)
  BY <1>1 DEF Observe
<1>2. CASE RequireLeaseToken(p)
  BY <1>2 DEF RequireLeaseToken
<1>3. CASE Connect(p)
  BY <1>3 DEF Connect, GetMetadata, Register, CreateState, Materialize
<1>4. CASE Lease(p)
  BY <1>4 DEF Lease, GrantLease, PutLeaseToken, PersistLeaseGrant, UndoGrant, RenewLease,
              PersistRenewal, ReleaseLease, DeleteLeaseToken, ClearLocalLease,
              InvalidateLocalLease
<1>5. CASE Sync(p)
  BY <1>5 DEF Sync, BeginSync, Commit, AdoptCommit, Return, Recheck, Reread, ResolveUseServer,
              PersistResolveFailure
<1>6. CASE Logout(p)
  BY <1>6 DEF Logout, RevokeCurrentDevice, ForgetLeases, ForgetDevice
<1> QED
  BY <1>1, <1>2, <1>3, <1>4, <1>5, <1>6

\* Every step keeps the server well typed: no lease is granted and no version
\* published beyond the bounds.
LEMMA ServerStep ==
  ASSUME ServerOK, ProcessOK, [Next]_vars
  PROVE  ServerOK'
<1> USE ClientBoundsAssumption DEF ServerOK, SyncVersion, Leases, NoLease
<1>1. ASSUME NEW p \in Procs, Step(p)
      PROVE  ServerOK'
  <2>1. CASE GrantLease(p)
    BY <2>1 DEF GrantLease, Grantable
  <2>2. CASE UndoGrant(p) \/ ReleaseLease(p)
    BY <2>2 DEF UndoGrant, ReleaseLease
  <2>3. CASE RevokeCurrentDevice(p)
    <3>1. revoked' \in BOOLEAN
      BY <2>3, Zenon DEF RevokeCurrentDevice
    <3> QED
      BY <2>3, <3>1 DEF RevokeCurrentDevice
  <2>4. CASE Commit(p)
    <3>1. mem[p].content \in Contents
      BY DEF ProcessOK, Mem
    <3> QED
      BY <2>4, <3>1 DEF Commit
  <2> QED
    BY <1>1, <2>1, <2>2, <2>3, <2>4, Touches DEF server
<1>2. ASSUME NEW c \in Contents, EditFiles(c) \/ PublishElsewhere(c)
      PROVE  ServerOK'
  BY <1>2 DEF EditFiles, PublishElsewhere, server
<1>3. CASE LoseLease \/ \E p \in Procs : Crash(p)
  BY <1>3 DEF LoseLease, Crash, server
<1>4. CASE UNCHANGED vars
  BY <1>4 DEF vars, server
<1> QED
  BY <1>1, <1>2, <1>3, <1>4 DEF Next

\* Every step keeps the registry and the credential store well typed.
LEMMA SecretsStep ==
  ASSUME SecretsOK, ProcessOK, [Next]_vars
  PROVE  SecretsOK'
<1>1. ASSUME NEW p \in Procs, Step(p)
      PROVE  SecretsOK'
  <2>1. CASE Register(p) \/ CreateState(p)
    BY <2>1, Zenon DEF Register, CreateState, secrets, SecretsOK
  <2>2. CASE PutLeaseToken(p) \/ DeleteLeaseToken(p)
    <3>1. mem[p].lease \in Leases /\ NoLease \in Leases
      BY ClientBoundsAssumption DEF ProcessOK, Mem, Leases, NoLease
    <3> QED
      BY <2>2, <3>1 DEF PutLeaseToken, DeleteLeaseToken, SecretsOK
  <2>3. CASE ForgetLeases(p)
    <3>1. NoLease \in Leases
      BY ClientBoundsAssumption DEF Leases, NoLease
    <3> QED
      BY <2>3, <3>1 DEF ForgetLeases, SecretsOK
  <2>4. CASE ForgetDevice(p)
    BY <2>4, Zenon DEF ForgetDevice, SecretsOK
  <2> QED
    BY <1>1, <2>1, <2>2, <2>3, <2>4, Touches DEF secrets, SecretsOK
<1>2. ASSUME NEW c \in Contents, EditFiles(c) \/ PublishElsewhere(c)
      PROVE  SecretsOK'
  BY <1>2 DEF EditFiles, PublishElsewhere, secrets, SecretsOK
<1>3. CASE LoseLease \/ \E p \in Procs : Crash(p)
  BY <1>3 DEF LoseLease, Crash, secrets, SecretsOK
<1>4. CASE UNCHANGED vars
  BY <1>4 DEF vars, secrets, SecretsOK
<1> QED
  BY <1>1, <1>2, <1>3, <1>4 DEF Next

\* The lock is free or held by a process.
LEMMA LockStep ==
  ASSUME LockOK, [Next]_vars
  PROVE  LockOK'
<1>1. ASSUME NEW p \in Procs, Step(p)
      PROVE  LockOK'
  <2>1. CASE BeginSync(p)
    BY <2>1 DEF BeginSync, LockOK
  <2>2. CASE Commit(p) \/ AdoptCommit(p)
    BY <2>2 DEF Commit, AdoptCommit, GiveUp, LockOK
  <2> QED
    BY <1>1, <2>1, <2>2, Touches DEF LockOK
<1>2. ASSUME NEW c \in Contents, EditFiles(c) \/ PublishElsewhere(c)
      PROVE  LockOK'
  BY <1>2 DEF EditFiles, PublishElsewhere, LockOK
<1>3. CASE LoseLease \/ \E p \in Procs : Crash(p)
  BY <1>3 DEF LoseLease, Crash, LockOK
<1>4. CASE UNCHANGED vars
  BY <1>4 DEF vars, LockOK
<1> QED
  BY <1>1, <1>2, <1>3, <1>4 DEF Next

\* Every step keeps the local state well typed; for a materialization this
\* needs that its target is a version of the server.
LEMMA LocalStep ==
  ASSUME ServerOK, LocalOK, ProcessOK, VersionsKnown, [Next]_vars
  PROVE  LocalOK'
<1>0. state \in LocalState /\ files \in Contents /\ 0 \in 0..MaxVersion
  BY ClientBoundsAssumption DEF LocalOK
<1>1. ASSUME NEW p \in Procs, Step(p)
      PROVE  LocalOK'
  <2>1. /\ mem[p] \in Mem /\ mem[p].version \in 0..MaxVersion /\ mem[p].base \in 0..MaxVersion
        /\ mem[p].lease \in Leases /\ mem[p].content \in Contents
    BY DEF ProcessOK, Mem
  <2>2. CASE CreateState(p)
    <3>1. [state EXCEPT !.exists = TRUE] \in LocalState
      BY <1>0, <2>1, StateKept
    <3> QED
      BY <2>2, <3>1 DEF CreateState, local, LocalOK, WriteState
  <2>3. CASE Materialize(p)
    <3>1. PICK target : target = Content(mem[p].version)
      OBVIOUS
    <3>2. target \in Contents
      BY <2>1, <2>3, <3>1, ContentsAssumption DEF Materialize, VersionsKnown, Versions, Content,
         ServerOK, SyncVersion
    <3>3. [state EXCEPT !.base = mem[p].version, !.manifest = target] \in LocalState
      BY <1>0, <2>1, <3>2, StateBuilt
    <3> QED
      BY <1>0, <2>3, <3>1, <3>2, <3>3 DEF Materialize, LocalOK, local, WriteState
  <2>4. CASE PersistLeaseGrant(p) \/ PersistRenewal(p)
    <3>1. WithActiveLease(state, mem[p].lease, mem[p].base) \in LocalState
      BY <1>0, <2>1, StateBuilt
    <3> QED
      BY <2>4, <3>1 DEF PersistLeaseGrant, PersistRenewal, local, LocalOK, WriteState
  <2>5. CASE ClearLocalLease(p) \/ InvalidateLocalLease(p) \/ PersistResolveFailure(p)
    <3>1. WithoutActiveLease(state) \in LocalState
      BY <1>0, <2>1, StateBuilt
    <3> QED
      BY <2>5, <3>1 DEF ClearLocalLease, InvalidateLocalLease, PersistResolveFailure,
         MarkLeaseOrBaseInvalid, local, LocalOK, WriteState
  <2>6. CASE BeginSync(p)
    BY <2>6 DEF BeginSync, MarkConflict, local, LocalOK, WriteState
  <2>7. CASE Commit(p)
    <3>1. WithoutActiveLease(state) \in LocalState
      BY <1>0, <2>1, StateBuilt
    <3> QED
      BY <2>7, <3>1 DEF Commit, MarkConflict, MarkLeaseOrBaseInvalid, local, LocalOK, WriteState
  <2>8. CASE AdoptCommit(p)
    <3>1. [state EXCEPT !.base = mem[p].version, !.manifest = mem[p].content,
                        !.leaseBase = mem[p].version] \in LocalState
      BY <1>0, <2>1, StateBuilt
    <3> QED
      BY <2>8, <3>1 DEF AdoptCommit, AdoptedManifest, LocalOK, WriteState
  <2>9. CASE ReadState(p) /\ UNCHANGED files
    BY <2>9 DEF ReadState, LocalOK
  <2> QED
    BY <1>1, <2>2, <2>3, <2>4, <2>5, <2>6, <2>7, <2>8, <2>9, Touches DEF local, LocalOK
<1>2. ASSUME NEW c \in Contents, EditFiles(c) \/ PublishElsewhere(c)
      PROVE  LocalOK'
  BY <1>2 DEF EditFiles, PublishElsewhere, local, LocalOK
<1>3. CASE LoseLease \/ \E p \in Procs : Crash(p)
  BY <1>3 DEF LoseLease, Crash, local, LocalOK
<1>4. CASE UNCHANGED vars
  BY <1>4 DEF vars, local, LocalOK
<1> QED
  BY <1>1, <1>2, <1>3, <1>4 DEF Next

\* Every step of a command leaves its process at a point, remembering well.
LEMMA ProcessStep ==
  ASSUME TypeOK, NEW p \in Procs, Step(p)
  PROVE  ProcessOK'
<1>1. /\ ServerOK /\ LocalOK /\ SecretsOK /\ ProcessOK /\ LockOK
      /\ mem[p] \in Mem /\ state \in LocalState
  BY TypeParts DEF ProcessOK, LocalOK
<1>2. /\ SyncVersion \in 0..MaxVersion
      /\ state.base \in 0..MaxVersion /\ state.leaseBase \in 0..MaxVersion /\ state.lease \in Leases
      /\ files \in Contents /\ token \in Leases
      /\ mem[p].version \in 0..MaxVersion /\ mem[p].content \in Contents
      /\ mem[p].op \in Commands \cup {"none"}
  BY <1>1 DEF ServerOK, SyncVersion, LocalOK, LocalState, SecretsOK, Mem
<1>3. ASSUME NEW op \in Commands \ {"logout"}, Observe(p, op)
      PROVE  ProcessOK'
  <2>1. PICK m : m = [mem[p] EXCEPT !.op = op]
    OBVIOUS
  <2>2. m \in Mem /\ m.op = op
    BY <1>1, <2>1, MemKept DEF Mem
  <2>3. Noting(m, state) \in Mem
    BY <1>2, <2>2, MemKept DEF Noting
  <2>4. AfterObserving(op, state) \in Points
    BY DEF AfterObserving, Points
  <2>5. Moves(p, AfterObserving(op, state), Noting(m, state))
    BY <1>3, <2>1 DEF Observe, Moves, Goto, Recall
  <2> QED
    BY <1>1, <2>3, <2>4, <2>5, MovesOK
<1>4. CASE RequireLeaseToken(p)
  <2>1. [mem[p] EXCEPT !.token = token] \in Mem
    BY <1>1, <1>2, MemKept
  <2>2. AfterToken(mem[p].op) \in Points
    BY DEF AfterToken, Points
  <2> QED
    BY <1>1, <1>4, <2>1, <2>2, MovesOK, EndOK DEF RequireLeaseToken, Moves, Goto, Recall
<1>5. CASE GetMetadata(p)
  <2>1. PICK b : b = ~registered
    OBVIOUS
  <2>2. b \in BOOLEAN
    BY <2>1, Zenon
  <2>3. [Blank EXCEPT !.op = "connect", !.version = SyncVersion, !.here = b] \in Mem
    BY <1>2, <2>2, BlankOK, MemBuilt DEF Commands
  <2> QED
    BY <1>1, <1>5, <2>1, <2>3, MovesOK DEF GetMetadata, Moves, Goto, Recall, Points
<1>6. CASE Register(p) \/ CreateState(p) \/ Materialize(p)
  BY <1>1, <1>6, ProceedOK, EndOK DEF Register, CreateState, Materialize, Points
<1>7. CASE GrantLease(p)
  <2>1. PICK m : m = [mem[p] EXCEPT !.lease = granted + 1, !.base = SyncVersion]
    OBVIOUS
  <2>2. End(p) \/ (Moves(p, "put", m) /\ granted < MaxLeases)
    BY <1>7, <2>1 DEF GrantLease, Grantable, Moves, Goto, Recall
  <2>3. ASSUME granted < MaxLeases
        PROVE  m \in Mem
    <3>1. MaxLeases \in Nat /\ granted \in 0..MaxLeases
      BY <1>1, ClientBoundsAssumption DEF ServerOK, Leases
    <3>2. granted + 1 \in Leases
      BY <2>3, <3>1 DEF Leases
    <3> QED
      BY <1>1, <1>2, <2>1, <3>2, MemBuilt
  <2> QED
    BY <1>1, <2>2, <2>3, MovesOK, EndOK DEF Points
<1>8. CASE PutLeaseToken(p) \/ PersistLeaseGrant(p) \/ UndoGrant(p)
  BY <1>1, <1>8, ProceedOK, EndOK DEF PutLeaseToken, PersistLeaseGrant, UndoGrant, Points
<1>9. CASE RenewLease(p)
  <2>1. [mem[p] EXCEPT !.base = SyncVersion] \in Mem
    BY <1>1, <1>2, MemKept
  <2> QED
    BY <1>1, <1>9, <2>1, MovesOK, ProceedOK, EndOK DEF RenewLease, Moves, Goto, Recall, Points
<1>10. CASE \/ PersistRenewal(p) \/ ReleaseLease(p) \/ DeleteLeaseToken(p) \/ ClearLocalLease(p)
            \/ InvalidateLocalLease(p)
  BY <1>1, <1>10, ProceedOK, EndOK DEF PersistRenewal, ReleaseLease, DeleteLeaseToken,
     ClearLocalLease, InvalidateLocalLease, Points
<1>11. ASSUME NEW c \in Contents, NEW v \in 0..MaxVersion, Report(p, c, v)
       PROVE  ProcessOK'
  <2>1. [Blank EXCEPT !.op = mem[p].op, !.content = c, !.version = v] \in Mem
    BY <1>2, BlankOK, MemBuilt
  <2> QED
    BY <1>1, <1>11, <2>1, MovesOK DEF Report, Moves, Goto, Recall, Points
<1>12. CASE BeginSync(p)
  <2>1. PICK b : b = CommitBase(mem[p].op, state)
    OBVIOUS
  <2>2. [mem[p] EXCEPT !.content = files, !.lease = state.lease, !.base = b] \in Mem
    BY <1>1, <1>2, <2>1, MemBuilt DEF CommitBase
  <2> QED
    BY <1>1, <1>2, <1>11, <1>12, <2>1, <2>2, MovesOK, EndOK, FailOK
       DEF BeginSync, Moves, Goto, Recall, Points
<1>13. CASE Commit(p)
  <2>1. PICK m : m = [mem[p] EXCEPT !.version = SyncVersion + 1]
    OBVIOUS
  <2>2. GiveUp(p) \/ (Moves(p, "adopt", m) /\ SyncVersion < MaxVersion)
    BY <1>13, <2>1 DEF Commit, Moves, Goto, Recall
  <2>3. ASSUME SyncVersion < MaxVersion
        PROVE  m \in Mem
    <3>1. MaxVersion \in Nat
      BY ClientBoundsAssumption
    <3>2. PICK v : v = SyncVersion + 1
      OBVIOUS
    <3>3. v \in 0..MaxVersion
      BY <1>2, <2>3, <3>1, <3>2
    <3>4. [mem[p] EXCEPT !.version = v] \in Mem
      BY <1>1, <1>2, <3>3, MemKept
    <3>5. m \in Mem
      <4>1. m = [mem[p] EXCEPT !.version = v]
        BY <2>1, <3>2, Zenon
      <4> QED
        BY <4>1, <3>4, Zenon
    <3> QED
      BY <3>5
  <2> QED
    BY <1>1, <2>2, <2>3, MovesOK, FailOK DEF GiveUp, Points
<1>14. CASE AdoptCommit(p)
  BY <1>2, <1>11, <1>14 DEF AdoptCommit
<1>15. CASE Return(p) \/ Recheck(p) \/ PersistResolveFailure(p)
  BY <1>1, <1>15, ProceedOK, EndOK DEF Return, Recheck, PersistResolveFailure, Points
<1>16. CASE Reread(p)
  <2>1. [mem[p] EXCEPT !.lease = state.lease] \in Mem
    BY <1>1, <1>2, MemKept
  <2> QED
    BY <1>1, <1>16, <2>1, MovesOK, EndOK DEF Reread, Moves, Goto, Recall, Points
<1>17. CASE ResolveUseServer(p)
  <2>1. [mem[p] EXCEPT !.version = SyncVersion] \in Mem
    BY <1>1, <1>2, MemKept
  <2> QED
    BY <1>1, <1>17, <2>1, MovesOK, ProceedOK, EndOK DEF ResolveUseServer, Moves, Goto, Recall,
       Points
<1>18. CASE Logout(p)
  <2>1. [Blank EXCEPT !.op = "logout"] \in Mem
    BY BlankOK, MemKept, <1>2 DEF Commands
  <2>2. CASE RevokeCurrentDevice(p)
    BY <1>1, <2>1, <2>2, MovesOK DEF RevokeCurrentDevice, Moves, Goto, Recall, Points, process,
       ProcessOK
  <2>3. CASE ForgetLeases(p) \/ ForgetDevice(p)
    BY <1>1, <2>3, ProceedOK, EndOK DEF ForgetLeases, ForgetDevice, Points
  <2> QED
    BY <1>18, <2>2, <2>3 DEF Logout
<1> QED
  BY <1>3, <1>4, <1>5, <1>6, <1>7, <1>8, <1>9, <1>10, <1>12, <1>13, <1>14, <1>15, <1>16, <1>17,
     <1>18 DEF Step, Connect, Lease, Sync
\* The type invariant is inductive relative to VersionsKnown.
LEMMA TypeStep ==
  ASSUME TypeOK, VersionsKnown, [Next]_vars
  PROVE  TypeOK'
<1>1. ServerOK /\ LocalOK /\ SecretsOK /\ ProcessOK /\ LockOK
  BY TypeParts
<1>2. ServerOK' /\ LocalOK' /\ SecretsOK' /\ LockOK'
  BY <1>1, ServerStep, LocalStep, SecretsStep, LockStep
<1>3. ProcessOK'
  <2>1. ASSUME NEW p \in Procs, Step(p)
        PROVE  ProcessOK'
    BY <2>1, ProcessStep
  <2>2. ASSUME NEW p \in Procs, Crash(p)
        PROVE  ProcessOK'
    BY <1>1, <2>2, EndOK DEF Crash
  <2>3. ASSUME NEW c \in Contents, EditFiles(c) \/ PublishElsewhere(c)
        PROVE  ProcessOK'
    BY <1>1, <2>3 DEF EditFiles, PublishElsewhere, process, ProcessOK
  <2>4. CASE LoseLease \/ UNCHANGED vars
    BY <1>1, <2>4 DEF LoseLease, vars, process, ProcessOK
  <2> QED
    BY <2>1, <2>2, <2>3, <2>4 DEF Next
<1>4. TypeOK' <=> ServerOK' /\ LocalOK' /\ SecretsOK' /\ ProcessOK' /\ LockOK'
  BY DEF TypeOK, ServerOK, LocalOK, SecretsOK, ProcessOK, LockOK, Mem, LocalState
<1> QED
  BY <1>2, <1>3, <1>4

\* The history only grows, by a commit or by another device, so that what a
\* version holds never changes.
LEMMA HistoryGrows ==
  ASSUME TypeOK, [Next]_vars
  PROVE  /\ SyncVersion <= SyncVersion' /\ SyncVersion \in Nat /\ SyncVersion' \in Nat
         /\ \A v \in 0..SyncVersion : Content(v)' = Content(v)
         /\ \A v \in 1..SyncVersion : history'[v] = history[v]
         /\ \/ history' = history
            \/ \E p \in Procs : Commit(p)
            \/ \E c \in Contents : PublishElsewhere(c)
<1>1. history \in Seq(Contents) /\ \A p \in Procs : mem[p].content \in Contents
  BY TypeParts DEF ServerOK, ProcessOK, Mem
<1>2. /\ \/ history' = history
         \/ \E p \in Procs : Commit(p)
         \/ \E c \in Contents : PublishElsewhere(c)
      /\ history' = history \/ \E c \in Contents : history' = Append(history, c)
  <2>1. ASSUME NEW p \in Procs, Step(p), ~Commit(p)
        PROVE  history' = history
    BY <2>1, Touches DEF GrantLease, UndoGrant, ReleaseLease, RevokeCurrentDevice, server
  <2>2. ASSUME NEW p \in Procs, Commit(p)
        PROVE  history' = history \/ \E c \in Contents : history' = Append(history, c)
    BY <1>1, <2>2 DEF Commit
  <2>3. ASSUME NEW c \in Contents, EditFiles(c) \/ PublishElsewhere(c)
        PROVE  \/ history' = history
               \/ PublishElsewhere(c) /\ history' = Append(history, c)
    BY <2>3 DEF EditFiles, PublishElsewhere, server
  <2>4. CASE LoseLease \/ UNCHANGED vars \/ \E p \in Procs : Crash(p)
    BY <2>4 DEF LoseLease, Crash, vars, server
  <2> QED
    BY <2>1, <2>2, <2>3, <2>4 DEF Next
<1> QED
  BY <1>1, <1>2 DEF SyncVersion, Content

\* A step of one process leaves the others where they are.
LEMMA OneMoves ==
  ASSUME ProcessOK, NEW p \in Procs, Step(p) \/ Crash(p), NEW q \in Procs, q # p
  PROVE  at'[q] = at[q] /\ mem'[q] = mem[q]
<1> USE DEF ProcessOK, Goto, Recall, Proceed, End
<1>1. CASE \E op \in Commands \ {"logout"} : Observe(p, op)
  BY <1>1 DEF Observe
<1>2. CASE RequireLeaseToken(p) \/ Crash(p)
  BY <1>2 DEF RequireLeaseToken, Crash
<1>3. CASE Connect(p)
  BY <1>3 DEF Connect, GetMetadata, Register, CreateState, Materialize
<1>4. CASE Lease(p)
  BY <1>4 DEF Lease, GrantLease, PutLeaseToken, PersistLeaseGrant, UndoGrant, RenewLease,
              PersistRenewal, ReleaseLease, DeleteLeaseToken, ClearLocalLease,
              InvalidateLocalLease
<1>5. CASE Sync(p)
  BY <1>5 DEF Sync, BeginSync, Commit, AdoptCommit, Return, Recheck, Reread, ResolveUseServer,
              PersistResolveFailure, Report, Fail, GiveUp
<1>6. CASE Logout(p)
  BY <1>6 DEF Logout, RevokeCurrentDevice, ForgetLeases, ForgetDevice, process
<1> QED
  BY <1>1, <1>2, <1>3, <1>4, <1>5, <1>6 DEF Step

-----------------------------------------------------------------------------
\* The invariant.

\* A use_server whose reading of the state is still good is not about to go back.
ReadingIsFresh ==
  \A p \in Procs : at[p] = "materialize" /\ mem[p].op # "connect" /\ p \notin changed =>
    state.base <= mem[p].version

\* The base a sync commits on is the one in state.json.
CommitNamesBase ==
  \A p \in Procs : at[p] = "commit" /\ mem[p].op = "sync" => mem[p].base = state.base

\* The version that is about to be adopted is on the server, and not older than
\* the base.
AdoptsPublished ==
  \A p \in Procs : at[p] = "adopt" =>
    /\ mem[p].version \in 1..SyncVersion /\ history[mem[p].version] = mem[p].content
    /\ state.base <= mem[p].version

Inv == /\ TypeOK /\ VersionsKnown /\ LockIsGivenBack /\ BaseIsPublished
       /\ ReadingIsFresh /\ CommitNamesBase /\ AdoptsPublished

\* How a process comes to the points the invariant speaks of, and how it
\* leaves the two at which it holds the lock.
LEMMA Arrives ==
  ASSUME TypeOK, NEW p \in Procs, Step(p) \/ Crash(p)
  PROVE  /\ at'[p] = "register" => mem'[p].op = "connect" /\ mem'[p].version = SyncVersion
         /\ at'[p] = "observe" => at[p] = "register" /\ mem'[p] = mem[p]
         /\ at'[p] = "create" => /\ at[p] = "observe"
                                 /\ mem'[p].op = "connect" /\ mem'[p].version = mem[p].version
         /\ at'[p] = "materialize" =>
              \/ /\ at[p] \in {"observe", "create"}
                 /\ at[p] = "observe" => mem'[p].op = "connect"
                 /\ at[p] = "create" => mem'[p] = mem[p]
                 /\ mem'[p].version = mem[p].version
              \/ ResolveUseServer(p) /\ mem'[p].version = SyncVersion
         /\ at'[p] = "commit" => BeginSync(p) /\ lock' = p
         /\ at'[p] = "adopt" => Commit(p) /\ lock' = lock
         /\ at[p] = "commit" => Commit(p) \/ Crash(p)
         /\ at[p] = "adopt" => AdoptCommit(p) \/ Crash(p)
<1>1. ProcessOK /\ mem[p] \in Mem
  BY TypeParts DEF ProcessOK
<1> USE DEF ProcessOK, Goto, Recall, Proceed, End, Mem
<1>2. ASSUME NEW op \in Commands \ {"logout"}, Observe(p, op)
      PROVE  /\ at[p] = IF op = "connect" THEN "observe" ELSE "idle"
             /\ at'[p] = AfterObserving(op, state)
             /\ mem'[p].version = mem[p].version
             /\ mem'[p].op = op
  BY <1>1, <1>2 DEF Observe, Noting
<1>3. CASE RequireLeaseToken(p) \/ Crash(p)
  BY <1>1, <1>3 DEF RequireLeaseToken, Crash, AfterToken
<1>4. CASE Connect(p)
  <2>1. CASE GetMetadata(p)
    <3>1. PICK b : b = ~registered
      OBVIOUS
    <3>2. /\ at[p] = "idle"
          /\ mem' = [mem EXCEPT ![p] = [Blank EXCEPT !.op = "connect", !.version = SyncVersion,
                                                    !.here = b]]
          /\ at' = [at EXCEPT ![p] = "register"]
      BY <2>1, <3>1, Zenon DEF GetMetadata
    <3> QED
      BY <1>1, <3>2, BlankOK
  <2>2. CASE Register(p)
    BY <1>1, <2>2 DEF Register
  <2>3. CASE CreateState(p)
    BY <1>1, <2>3 DEF CreateState
  <2>4. CASE Materialize(p)
    BY <1>1, <2>4 DEF Materialize
  <2> QED
    BY <1>4, <2>1, <2>2, <2>3, <2>4 DEF Connect
<1>5. CASE Lease(p)
  BY <1>1, <1>5 DEF Lease, GrantLease, PutLeaseToken, PersistLeaseGrant, UndoGrant, RenewLease,
              PersistRenewal, ReleaseLease, DeleteLeaseToken, ClearLocalLease,
              InvalidateLocalLease
<1>6. CASE Sync(p)
  BY <1>1, <1>6 DEF Sync, BeginSync, Commit, AdoptCommit, Return, Recheck, Reread, ResolveUseServer,
              PersistResolveFailure, Report, Fail, GiveUp
<1>7. CASE Logout(p)
  BY <1>1, <1>7 DEF Logout, RevokeCurrentDevice, ForgetLeases, ForgetDevice, process
<1> QED
  BY <1>2, <1>3, <1>4, <1>5, <1>6, <1>7 DEF Step, AfterObserving

\* The step leaves the base alone.
BaseKept == state'.base = state.base /\ state'.manifest = state.manifest

\* The base is moved by a materialization and by an adopted commit only; these
\* make every other process's reading old, and nothing but its own read makes
\* a reading new.
LEMMA BaseMoves ==
  ASSUME TypeOK, NEW p \in Procs, Step(p)
  PROVE  \/ /\ Materialize(p) /\ Unlocked /\ p \notin changed
            /\ state'.base = mem[p].version /\ state'.manifest = Content(mem[p].version)
            /\ changed' = changed \cup (Procs \ {p})
         \/ /\ AdoptCommit(p)
            /\ state'.base = mem[p].version /\ state'.manifest = mem[p].content
            /\ changed' = changed \cup (Procs \ {p})
         \/ BaseKept /\ changed \ {p} \subseteq changed'
<1>1. state \in LocalState
  BY TypeParts DEF LocalOK
<1> USE DEF LocalState, BaseKept, WriteState, local
<1>2. CASE Materialize(p) \/ AdoptCommit(p)
  BY <1>1, <1>2 DEF Materialize, RevisionHeld, AdoptCommit, AdoptedManifest
<1>3. CASE \/ CreateState(p) \/ PersistLeaseGrant(p) \/ PersistRenewal(p) \/ ClearLocalLease(p)
           \/ InvalidateLocalLease(p) \/ BeginSync(p) \/ Commit(p) \/ PersistResolveFailure(p)
           \/ ReadState(p)
  BY <1>1, <1>3 DEF CreateState, PersistLeaseGrant, PersistRenewal, ClearLocalLease,
     InvalidateLocalLease, BeginSync, Commit, PersistResolveFailure, ReadState, WithActiveLease,
     WithoutActiveLease, MarkLeaseOrBaseInvalid, MarkConflict
<1> QED
  BY <1>2, <1>3, Touches

\* What is no step of a command leaves the local state alone, and all but a
\* crash leave the processes and the lock alone.
LEMMA Elsewhere ==
  ASSUME [Next]_vars, ~ \E p \in Procs : Step(p)
  PROVE  /\ UNCHANGED local
         /\ (\E p \in Procs : Crash(p)) \/ UNCHANGED <<process, lock>>
  BY DEF Next, Crash, EditFiles, PublishElsewhere, LoseLease, vars, local

\* The same as OneMoves, for all other processes, from the type invariant.
LEMMA OthersStay ==
  ASSUME TypeOK, NEW p \in Procs, Step(p) \/ Crash(p)
  PROVE  \A q \in Procs \ {p} : at'[q] = at[q] /\ mem'[q] = mem[q]
  BY TypeParts, OneMoves

\* A command takes the lock when it begins to commit, and gives it back however
\* the commit ends, by a crash too.
LEMMA LockHeld ==
  ASSUME TypeOK, LockIsGivenBack, NEW p \in Procs, Step(p) \/ Crash(p)
  PROVE  LockIsGivenBack'
<1>1. /\ \A q \in Procs \ {p} : at'[q] = at[q]
      /\ Free \notin Procs
  BY OthersStay, ProcsAssumption
<1>2. ProcessOK
  BY TypeParts
<1> USE DEF LockIsGivenBack, Unlocked, Goto, Recall, Proceed, End, ProcessOK
<1>3. CASE BeginSync(p)
  BY <1>1, <1>2, <1>3 DEF BeginSync, Report, Fail
<1>4. CASE Commit(p) \/ AdoptCommit(p)
  BY <1>1, <1>2, <1>4 DEF Commit, AdoptCommit, Report, GiveUp, Fail
<1>5. CASE Crash(p)
  BY <1>1, <1>2, <1>5 DEF Crash
<1>6. CASE Step(p) /\ ~BeginSync(p) /\ ~Commit(p) /\ ~AdoptCommit(p) /\ ~Crash(p)
  <2>1. UNCHANGED lock
    BY <1>6, Touches
  <2>2. at[p] \notin {"commit", "adopt"} /\ at'[p] \notin {"commit", "adopt"}
    BY <1>6, Arrives
  <2> QED
    BY <1>1, <2>1, <2>2
<1> QED
  BY <1>3, <1>4, <1>5, <1>6

\* LockIsGivenBack is kept by every step.
LEMMA LockStays ==
  ASSUME TypeOK, LockIsGivenBack, [Next]_vars
  PROVE  LockIsGivenBack'
<1>1. CASE UNCHANGED <<process, lock>>
  BY <1>1 DEF process, LockIsGivenBack
<1> QED
  BY <1>1, LockHeld, Elsewhere

\* While a command commits, nobody else moves the base: materializations wait
\* for the lock, and only its holder adopts.
LEMMA BaseStays ==
  ASSUME TypeOK, LockIsGivenBack, [Next]_vars,
         NEW p \in Procs, at[p] \in {"commit", "adopt"}
  PROVE  BaseKept \/ AdoptCommit(p)
<1>1. lock = p /\ p # Free
  BY ProcsAssumption DEF LockIsGivenBack
<1>2. ASSUME NEW q \in Procs, AdoptCommit(q)
      PROVE  q = p
  BY <1>1, <1>2 DEF AdoptCommit, LockIsGivenBack
<1>3. ASSUME NEW q \in Procs, Step(q)
      PROVE  BaseKept \/ AdoptCommit(p)
  BY <1>1, <1>2, <1>3, BaseMoves DEF Unlocked
<1> QED
  BY <1>3, Elsewhere DEF BaseKept, local

\* VersionsKnown is kept by every step.
LEMMA VersionsStay ==
  ASSUME TypeOK, VersionsKnown, [Next]_vars
  PROVE  VersionsKnown'
<1>1. SyncVersion <= SyncVersion' /\ SyncVersion \in Nat /\ SyncVersion' \in Nat
  BY HistoryGrows
<1>2. \A p \in Procs : mem[p].version \in Nat
  BY TypeParts, ClientBoundsAssumption DEF ProcessOK, Mem
<1>3. ASSUME NEW p \in Procs, Step(p) \/ Crash(p)
      PROVE  VersionsKnown'
  <2>1. \A q \in Procs \ {p} : at'[q] = at[q] /\ mem'[q] = mem[q]
    BY <1>3, OthersStay
  <2>2. ASSUME at'[p] \in Versions
        PROVE  /\ mem'[p].version <= SyncVersion
               /\ at'[p] # "materialize" => mem'[p].op = "connect"
    BY <1>1, <1>2, <1>3, <2>2, Arrives DEF Versions, VersionsKnown
  <2>3. ASSUME NEW q \in Procs, at'[q] \in Versions
        PROVE  /\ mem'[q].version <= SyncVersion
               /\ at'[q] # "materialize" => mem'[q].op = "connect"
    BY <2>1, <2>2, <2>3 DEF VersionsKnown
  <2>4. \A q \in Procs : mem'[q].version \in Nat
    BY TypeStep, ClientBoundsAssumption DEF TypeOK
  <2> QED
    BY <1>1, <2>3, <2>4 DEF VersionsKnown
<1>4. CASE UNCHANGED process
  BY <1>1, <1>2, <1>4 DEF VersionsKnown, process
<1> QED
  BY <1>3, <1>4, Elsewhere

\* ReadingIsFresh is kept by every step: use_server asks the server after it has
\* read the state, and a base that moves meanwhile makes the reading old.
LEMMA FreshStays ==
  ASSUME TypeOK, VersionsKnown, BaseIsPublished, ReadingIsFresh, [Next]_vars
  PROVE  ReadingIsFresh'
<1>1. CASE UNCHANGED process /\ UNCHANGED local
  BY <1>1 DEF ReadingIsFresh, process, local
<1>2. ASSUME NEW p \in Procs, Crash(p)
      PROVE  ReadingIsFresh'
  <2>1. at'[p] = "idle" /\ UNCHANGED local
    BY <1>2, TypeParts DEF Crash, End, Goto, ProcessOK
  <2> QED
    BY <1>2, <2>1, OthersStay DEF ReadingIsFresh, local
<1>3. ASSUME NEW p \in Procs, Step(p)
      PROVE  ReadingIsFresh'
  <2>1. \A q \in Procs \ {p} : at'[q] = at[q] /\ mem'[q] = mem[q]
    BY <1>3, OthersStay
  <2>2. ASSUME at'[p] = "materialize", mem'[p].op # "connect", p \notin changed'
        PROVE  state'.base <= mem'[p].version
    <3>1. /\ ResolveUseServer(p) /\ mem'[p].version = SyncVersion
      BY <1>3, <2>2, Arrives DEF VersionsKnown, Versions
    <3>2. BaseKept
      BY <3>1 DEF ResolveUseServer, local, BaseKept
    <3> QED
      BY <3>1, <3>2 DEF BaseKept, BaseIsPublished
  <2>3. ASSUME NEW q \in Procs \ {p}, q \notin changed'
        PROVE  BaseKept /\ q \notin changed
    BY <1>3, <2>3, BaseMoves
  <2> QED
    BY <2>1, <2>2, <2>3 DEF ReadingIsFresh, BaseKept
<1> QED
  BY <1>1, <1>2, <1>3, Elsewhere

\* CommitNamesBase is kept by every step.
LEMMA CommitStays ==
  ASSUME TypeOK, LockIsGivenBack, CommitNamesBase, [Next]_vars
  PROVE  CommitNamesBase'
<1>1. CASE UNCHANGED process /\ UNCHANGED local
  BY <1>1 DEF CommitNamesBase, process, local
<1>2. ASSUME NEW p \in Procs, Step(p) \/ Crash(p)
      PROVE  CommitNamesBase'
  <2>1. \A q \in Procs \ {p} : at'[q] = at[q] /\ mem'[q] = mem[q]
    BY <1>2, OthersStay
  <2>2. ASSUME at'[p] = "commit", mem'[p].op = "sync"
        PROVE  mem'[p].base = state'.base
    <3>1. BeginSync(p)
      BY <1>2, <2>2, Arrives
    <3>2. mem[p] \in Mem /\ at \in [Procs -> Points] /\ mem \in [Procs -> Mem]
      BY TypeParts DEF ProcessOK
    <3>3. /\ mem' = [mem EXCEPT ![p] = [mem[p] EXCEPT !.content = files, !.lease = state.lease,
                                                     !.base = CommitBase(mem[p].op, state)]]
          /\ UNCHANGED local
      BY <2>2, <3>1, <3>2 DEF BeginSync, Report, Fail, Proceed, End, Goto, Recall
    <3>4. mem'[p].op = mem[p].op /\ mem'[p].base = CommitBase(mem[p].op, state)
      BY <3>2, <3>3 DEF Mem
    <3> QED
      BY <2>2, <3>3, <3>4 DEF CommitBase, local
  <2>3. ASSUME NEW q \in Procs \ {p}, at[q] = "commit"
        PROVE  BaseKept
    BY <2>3, BaseStays DEF AdoptCommit
  <2> QED
    BY <2>1, <2>2, <2>3 DEF CommitNamesBase, BaseKept
<1> QED
  BY <1>1, <1>2, Elsewhere

\* AdoptsPublished is kept by every step: the version the server answered is the
\* one it appended, newer than any base.
LEMMA AdoptsStay ==
  ASSUME TypeOK, LockIsGivenBack, BaseIsPublished, AdoptsPublished, [Next]_vars
  PROVE  AdoptsPublished'
<1>1. /\ SyncVersion <= SyncVersion' /\ SyncVersion \in Nat /\ SyncVersion' \in Nat
      /\ \A v \in 1..SyncVersion : history'[v] = history[v]
  BY HistoryGrows
<1>2. CASE UNCHANGED process /\ UNCHANGED local
  BY <1>1, <1>2 DEF AdoptsPublished, process, local
<1>3. ASSUME NEW p \in Procs, Step(p) \/ Crash(p)
      PROVE  AdoptsPublished'
  <2>1. \A q \in Procs \ {p} : at'[q] = at[q] /\ mem'[q] = mem[q]
    BY <1>3, OthersStay
  <2>2. ASSUME at'[p] = "adopt"
        PROVE  /\ mem'[p].version \in 1..SyncVersion'
               /\ history'[mem'[p].version] = mem'[p].content
               /\ state'.base <= mem'[p].version
    <3>1. Commit(p) /\ lock' = lock
      BY <1>3, <2>2, Arrives
    <3>2. /\ mem[p] \in Mem /\ at \in [Procs -> Points] /\ mem \in [Procs -> Mem]
          /\ history \in Seq(Contents) /\ state.base \in Nat
      BY TypeParts, ClientBoundsAssumption DEF ProcessOK, ServerOK, LocalOK, LocalState
    <3>3. /\ history' = Append(history, mem[p].content)
          /\ mem' = [mem EXCEPT ![p] = [mem[p] EXCEPT !.version = SyncVersion + 1]]
          /\ UNCHANGED local
      BY <2>2, <3>1, <3>2 DEF Commit, Recall, GiveUp, Fail, Proceed, End, Goto
    <3>4. mem'[p].version = SyncVersion + 1 /\ mem'[p].content = mem[p].content
      BY <3>2, <3>3 DEF Mem
    <3>5. mem[p].content \in Contents
      BY <3>2 DEF Mem
    <3> QED
      BY <3>2, <3>3, <3>4, <3>5 DEF SyncVersion, local, BaseIsPublished
  <2>3. ASSUME NEW q \in Procs \ {p}, at[q] = "adopt"
        PROVE  BaseKept
    <3>1. ~AdoptCommit(q)
      <4>1. ASSUME AdoptCommit(q)
            PROVE  FALSE
        BY <4>1, <2>1, TypeParts DEF AdoptCommit, Report, Goto, ProcessOK
      <4> QED
        BY <4>1
    <3> QED
      BY <2>3, <3>1, BaseStays
  <2> QED
    BY <1>1, <2>1, <2>2, <2>3 DEF AdoptsPublished, BaseKept
<1> QED
  BY <1>2, <1>3, Elsewhere

\* BaseIsPublished is kept by every step.
LEMMA PublishedStays ==
  ASSUME TypeOK, VersionsKnown, AdoptsPublished, BaseIsPublished, [Next]_vars
  PROVE  BaseIsPublished'
<1>1. /\ SyncVersion <= SyncVersion' /\ SyncVersion \in Nat /\ SyncVersion' \in Nat
      /\ \A v \in 0..SyncVersion : Content(v)' = Content(v)
  BY HistoryGrows
<1>2. state.base \in Nat /\ \A p \in Procs : mem[p].version \in Nat
  BY TypeParts, ClientBoundsAssumption DEF LocalOK, LocalState, ProcessOK, Mem
<1>3. CASE BaseKept
  <2>1. state'.base \in 0..SyncVersion /\ state'.manifest = Content(state'.base)
    BY <1>1, <1>2, <1>3 DEF BaseKept, BaseIsPublished
  <2> QED
    BY <1>1, <2>1 DEF BaseIsPublished, Content
<1>4. ASSUME NEW p \in Procs, Step(p), ~BaseKept
      PROVE  BaseIsPublished'
  <2>1. PICK v : v = mem[p].version
    OBVIOUS
  <2>2. v \in 0..SyncVersion /\ state'.base = v /\ state'.manifest = Content(v)
    <3>1. CASE AdoptCommit(p) /\ state'.base = v /\ state'.manifest = mem[p].content
      BY <1>1, <1>2, <2>1, <3>1 DEF AdoptCommit, AdoptsPublished, Content
    <3>2. CASE Materialize(p) /\ state'.base = v /\ state'.manifest = Content(v)
      BY <1>1, <1>2, <2>1, <3>2 DEF Materialize, VersionsKnown, Versions
    <3> QED
      BY <1>4, <2>1, <3>1, <3>2, BaseMoves
  <2> QED
    BY <1>1, <2>2 DEF BaseIsPublished, Content
<1> QED
  BY <1>3, <1>4, Elsewhere DEF BaseKept, local

\* The invariant holds initially,
LEMMA Start == Init => Inv
<1> SUFFICES ASSUME Init PROVE Inv
  OBVIOUS
<1>1. MaxVersion \in Nat /\ MaxLeases \in Nat
  BY ClientBoundsAssumption
<1>2. ServerOK /\ SecretsOK /\ LockOK
  <2>1. revoked \in BOOLEAN /\ registered \in BOOLEAN /\ credential \in BOOLEAN
    BY Zenon DEF Init
  <2>2. history \in Seq(Contents) /\ SyncVersion = 0
    BY DEF Init, SyncVersion
  <2>3. 0 \in Leases /\ remoteLease = 0 /\ granted = 0 /\ token = 0
    BY <1>1 DEF Init, Leases, NoLease
  <2>4. LockOK
    BY DEF Init, LockOK
  <2> QED
    BY <1>1, <2>1, <2>2, <2>3, <2>4 DEF ServerOK, SecretsOK
<1>3. LocalOK
  BY <1>1, ContentsAssumption DEF Init, LocalOK, LocalState, Leases, NoLease
<1>4. ProcessOK
  BY BlankOK DEF Init, ProcessOK, Points
<1>5. /\ VersionsKnown /\ LockIsGivenBack /\ ReadingIsFresh /\ CommitNamesBase
      /\ AdoptsPublished
  BY ProcsAssumption DEF Init, VersionsKnown, Versions, LockIsGivenBack, ReadingIsFresh,
     CommitNamesBase, AdoptsPublished
<1>6. BaseIsPublished
  BY DEF Init, BaseIsPublished, SyncVersion, Content
<1> QED
  BY <1>2, <1>3, <1>4, <1>5, <1>6, TypeParts DEF Inv

\* and is inductive.
LEMMA Inductive == Inv /\ [Next]_vars => Inv'
  BY TypeStep, VersionsStay, LockStays, FreshStays, CommitStays, AdoptsStay, PublishedStays
     DEF Inv

\* The invariant holds in every reachable state.
LEMMA Invariance == Spec => []Inv
  BY Start, Inductive, PTL DEF Spec

\* Type correctness of the server, the local state, the credential store and
\* every process, for any number of them.
THEOREM TypeCorrectness == Spec => []TypeOK
<1>1. Inv => TypeOK
  BY DEF Inv
<1> QED
  BY <1>1, Invariance, PTL

\* The workspace lock is held by a command exactly while it commits and adopts
\* (syncWorkspace, workspace-runtime.ts): no answer and no crash leaves it behind.
THEOREM LockDiscipline == Spec => []LockIsGivenBack
<1>1. Inv => LockIsGivenBack
  BY DEF Inv
<1> QED
  BY <1>1, Invariance, PTL

\* The base and manifest in state.json are a version the server holds, whatever
\* commands, edits, lost answers and crashes came between.
THEOREM RealBase == Spec => []BaseIsPublished
<1>1. Inv => BaseIsPublished
  BY DEF Inv
<1> QED
  BY <1>1, Invariance, PTL

\* A version that a sync publishes follows the version this directory was last
\* known to hold, whatever base its lease has come to stand on.
THEOREM HeadOnly == Spec => SyncBuildsOnHead
<1>1. Inv /\ [Next]_vars =>
        [history' # history =>
           \A p \in Procs : at'[p] # at[p] /\ mem[p].op = "sync" => state.base = SyncVersion]_vars
  <2> SUFFICES ASSUME Inv, [Next]_vars, history' # history,
                      NEW p \in Procs, at'[p] # at[p], mem[p].op = "sync"
               PROVE  state.base = SyncVersion
    OBVIOUS
  <2>1. TypeOK /\ CommitNamesBase
    BY DEF Inv
  <2>2. ASSUME NEW q \in Procs, Commit(q)
        PROVE  state.base = SyncVersion
    <3>1. Step(q)
      BY <2>2 DEF Step, Sync
    <3>2. q = p
      BY <2>1, <3>1, OthersStay
    <3>3. at[p] = "commit" /\ mem[p].base = SyncVersion
      BY <2>2, <3>2 DEF Commit, local
    <3> QED
      BY <2>1, <3>3 DEF CommitNamesBase
  <2>3. ASSUME NEW c \in Contents, PublishElsewhere(c)
        PROVE  FALSE
    BY <2>3 DEF PublishElsewhere, process
  <2> QED
    BY <2>1, <2>2, <2>3, HistoryGrows
<1> QED
  BY <1>1, Invariance, PTL DEF Spec, SyncBuildsOnHead

\* Only a connect moves the local base to an older version: use_server and sync
\* never do, although they ask the server before they take the lock.
THEOREM ForwardOnly == Spec => BaseNeverGoesBack
<1>1. Inv /\ [Next]_vars =>
        [state'.base < state.base =>
           \E p \in Procs : at'[p] # at[p] /\ mem[p].op = "connect"]_vars
  <2> SUFFICES ASSUME Inv, [Next]_vars, state'.base < state.base
               PROVE  \E p \in Procs : at'[p] # at[p] /\ mem[p].op = "connect"
    OBVIOUS
  <2>1. TypeOK /\ ReadingIsFresh /\ AdoptsPublished
    BY DEF Inv
  <2>2. state.base \in Nat /\ \A p \in Procs : mem[p].version \in Nat
    BY <2>1, TypeParts, ClientBoundsAssumption DEF LocalOK, LocalState, ProcessOK, Mem
  <2>3. PICK p \in Procs : Step(p)
    BY <2>2, Elsewhere DEF local
  <2>4. CASE AdoptCommit(p) /\ state'.base = mem[p].version
    BY <2>1, <2>2, <2>4 DEF AdoptCommit, AdoptsPublished
  <2>5. CASE Materialize(p) /\ p \notin changed /\ state'.base = mem[p].version
    <3>1. at[p] = "materialize" /\ at'[p] = "idle"
      BY <2>1, <2>5, TypeParts DEF Materialize, End, Goto, ProcessOK
    <3> QED
      BY <2>1, <2>2, <2>5, <3>1 DEF ReadingIsFresh
  <2> QED
    BY <2>1, <2>2, <2>3, <2>4, <2>5, BaseMoves DEF BaseKept
<1> QED
  BY <1>1, Invariance, PTL DEF Spec, BaseNeverGoesBack
=============================================================================
