---------------------- MODULE WorkspaceServerProofs ----------------------
(***************************************************************************)
(* Proofs about WorkspaceServer, for every value of its constants: who     *)
(* writes, what becomes of what was published, and the refinement.         *)
(***************************************************************************)
EXTENDS WorkspaceServer, SequenceTheorems, TLAPS

-----------------------------------------------------------------------------
(* What the operators on sequences of leases do.                           *)

(* A later state of the leases: none is forgotten, handed to another        *)
(* device, moved to another cycle, or in force again once it was revoked.   *)
Outgrown(ls, ms) ==
  /\ Len(ls) <= Len(ms)
  /\ \A l \in 1..Len(ls) :
       /\ ms[l].device = ls[l].device
       /\ ms[l].cycle = ls[l].cycle
       /\ ls[l].revoked => ms[l].revoked

(* RevokeAll (the revokeWorkspaceLeases helpers) leaves no lease in force.  *)
LEMMA RevokeAllProperties ==
  ASSUME NEW ls \in Seq(Lease)
  PROVE  /\ RevokeAll(ls) \in Seq(Lease)
         /\ Len(RevokeAll(ls)) = Len(ls)
         /\ \A l \in 1..Len(ls) :
              RevokeAll(ls)[l] = [ls[l] EXCEPT !.revoked = TRUE]
         /\ InForce(RevokeAll(ls)) = {}
         /\ Outgrown(ls, RevokeAll(ls))
<1> DEFINE e(l) == [ls[l] EXCEPT !.revoked = TRUE]
<1>1. Len(ls) \in Nat /\ DOMAIN ls = 1..Len(ls) /\ \A l \in 1..Len(ls) : ls[l] \in Lease
  BY LenProperties, ElementOfSeq
<1>2. RevokeAll(ls) = [l \in 1..Len(ls) |-> e(l)]
  BY <1>1 DEF RevokeAll
<1>3. \A l \in 1..Len(ls) : e(l) \in Lease
  BY <1>1 DEF Lease
<1>4. RevokeAll(ls) \in [1..Len(ls) -> Lease]
  BY <1>2, <1>3
<1>5. RevokeAll(ls) \in Seq(Lease) /\ Len(RevokeAll(ls)) = Len(ls)
  BY <1>1, <1>4
<1>6. \A l \in 1..Len(ls) : e(l).revoked /\ e(l).device = ls[l].device /\ e(l).cycle = ls[l].cycle
  BY <1>1 DEF Lease
<1>7. \A l \in 1..Len(ls) : RevokeAll(ls)[l] = e(l)
  BY <1>2
<1>8. InForce(RevokeAll(ls)) = {}
  BY <1>1, <1>2, <1>6, <1>7 DEF InForce
<1>9. Outgrown(ls, RevokeAll(ls))
  <2>1. Len(ls) <= Len(RevokeAll(ls))
    BY <1>1, <1>5
  <2>2. ASSUME NEW l \in 1..Len(ls)
        PROVE  /\ RevokeAll(ls)[l].device = ls[l].device
               /\ RevokeAll(ls)[l].cycle = ls[l].cycle
               /\ RevokeAll(ls)[l].revoked
    BY <1>6, <1>7
  <2> QED
    BY <2>1, <2>2 DEF Outgrown
<1> QED
  BY <1>5, <1>7, <1>8, <1>9

(* ExpireLeases only revokes: every other field of every lease is kept.     *)
LEMMA ExpireLeasesProperties ==
  ASSUME NEW ls \in Seq(Lease), NEW t
  PROVE  /\ ExpireLeases(ls, t) \in Seq(Lease)
         /\ Len(ExpireLeases(ls, t)) = Len(ls)
         /\ \A l \in 1..Len(ls) :
              /\ ExpireLeases(ls, t)[l].base = ls[l].base
              /\ ls[l].revoked => ExpireLeases(ls, t)[l].revoked
         /\ InForce(ExpireLeases(ls, t)) \subseteq InForce(ls)
         /\ Outgrown(ls, ExpireLeases(ls, t))
<1> DEFINE old(l) == ls[l].cycle = workCycle /\ ls[l].expires <= t
           e(l) == IF old(l) THEN [ls[l] EXCEPT !.revoked = TRUE] ELSE ls[l]
<1>1. Len(ls) \in Nat /\ DOMAIN ls = 1..Len(ls) /\ \A l \in 1..Len(ls) : ls[l] \in Lease
  BY LenProperties, ElementOfSeq
<1>2. ExpireLeases(ls, t) = [l \in 1..Len(ls) |-> e(l)]
  BY <1>1 DEF ExpireLeases
<1>3. ASSUME NEW l \in 1..Len(ls)
      PROVE  /\ e(l) \in Lease
             /\ e(l).device = ls[l].device
             /\ e(l).cycle = ls[l].cycle
             /\ e(l).base = ls[l].base
             /\ ls[l].revoked => e(l).revoked
  <2>1. CASE old(l)
    <3>1. e(l) = [ls[l] EXCEPT !.revoked = TRUE]
      BY <2>1
    <3> QED
      BY <1>1, <3>1 DEF Lease
  <2>2. CASE ~old(l)
    <3>1. e(l) = ls[l]
      BY <2>2
    <3> HIDE DEF e
    <3> QED
      BY <1>1, <3>1
  <2> QED
    BY <2>1, <2>2
<1> HIDE DEF e
<1>4. ExpireLeases(ls, t) \in [1..Len(ls) -> Lease]
  BY <1>2, <1>3
<1>5. ExpireLeases(ls, t) \in Seq(Lease) /\ Len(ExpireLeases(ls, t)) = Len(ls)
  BY <1>1, <1>4
<1>6. \A l \in 1..Len(ls) : ExpireLeases(ls, t)[l] = e(l)
  BY <1>2
<1>7. DOMAIN ExpireLeases(ls, t) = 1..Len(ls)
  BY <1>2
<1>8. InForce(ExpireLeases(ls, t)) \subseteq InForce(ls)
  BY <1>1, <1>3, <1>6, <1>7 DEF InForce
<1>9. Len(ls) <= Len(ExpireLeases(ls, t))
  BY <1>1, <1>5
<1>10. Outgrown(ls, ExpireLeases(ls, t))
  BY <1>3, <1>6, <1>9, Zenon DEF Outgrown
<1>11. \A l \in 1..Len(ls) :
          /\ ExpireLeases(ls, t)[l].base = ls[l].base
          /\ ls[l].revoked => ExpireLeases(ls, t)[l].revoked
  BY <1>3, <1>6, Zenon
<1> QED
  BY <1>5, <1>8, <1>10, <1>11

(* Replacing one lease by an update of its base, expiry or revocation. *)
LEMMA UpdateLeaseProperties ==
  ASSUME NEW ls \in Seq(Lease), NEW l \in 1..Len(ls), NEW x \in Lease,
         x.device = ls[l].device,
         x.cycle = ls[l].cycle,
         ls[l].revoked => x.revoked
  PROVE  /\ [ls EXCEPT ![l] = x] \in Seq(Lease)
         /\ Len([ls EXCEPT ![l] = x]) = Len(ls)
         /\ [ls EXCEPT ![l] = x][l] = x
         /\ \A m \in 1..Len(ls) : m # l => [ls EXCEPT ![l] = x][m] = ls[m]
         /\ InForce([ls EXCEPT ![l] = x]) \subseteq InForce(ls)
         /\ Outgrown(ls, [ls EXCEPT ![l] = x])
<1> DEFINE ms == [ls EXCEPT ![l] = x]
<1>1. Len(ls) \in Nat /\ DOMAIN ls = 1..Len(ls)
  BY LenProperties
<1>2. ms \in Seq(Lease) /\ Len(ms) = Len(ls)
  BY ExceptSeq
<1>3. DOMAIN ms = 1..Len(ls) /\ ms[l] = x /\ \A m \in 1..Len(ls) : m # l => ms[m] = ls[m]
  BY <1>1
<1> HIDE DEF ms
<1>4. InForce(ms) \subseteq InForce(ls)
  BY <1>1, <1>3 DEF InForce
<1>5. Len(ls) <= Len(ms)
  BY <1>1, <1>2
<1>6. Outgrown(ls, ms)
  BY <1>3, <1>5, Zenon DEF Outgrown
<1> QED
  BY <1>2, <1>3, <1>4, <1>6 DEF ms

(* Appending a lease. *)
LEMMA AppendLeaseProperties ==
  ASSUME NEW ls \in Seq(Lease), NEW x \in Lease
  PROVE  /\ Append(ls, x) \in Seq(Lease)
         /\ Len(Append(ls, x)) = Len(ls) + 1
         /\ Append(ls, x)[Len(ls) + 1] = x
         /\ \A l \in 1..Len(ls) : Append(ls, x)[l] = ls[l]
         /\ InForce(ls) = {} => InForce(Append(ls, x)) \subseteq {Len(ls) + 1}
         /\ Outgrown(ls, Append(ls, x))
<1> DEFINE ms == Append(ls, x)
<1>1. Len(ls) \in Nat /\ DOMAIN ls = 1..Len(ls)
  BY LenProperties
<1>2. /\ ms \in Seq(Lease)
      /\ Len(ms) = Len(ls) + 1
      /\ ms[Len(ls) + 1] = x
      /\ \A l \in 1..Len(ls) : ms[l] = ls[l]
  BY AppendProperties
<1>3. DOMAIN ms = 1..Len(ls) + 1
  BY <1>2, LenProperties
<1> HIDE DEF ms
<1>4. ASSUME InForce(ls) = {} PROVE InForce(ms) \subseteq {Len(ls) + 1}
  BY <1>1, <1>2, <1>3, <1>4 DEF InForce
<1>5. Len(ls) <= Len(ms)
  BY <1>1, <1>2
<1>6. Outgrown(ls, ms)
  BY <1>2, <1>5, Zenon DEF Outgrown
<1> QED
  BY <1>2, <1>4, <1>6 DEF ms

(* Outgrowing takes no step back in several steps either. *)
LEMMA OutgrownTransitive ==
  ASSUME NEW ls \in Seq(Lease), NEW ms \in Seq(Lease), NEW ns \in Seq(Lease),
         Outgrown(ls, ms), Outgrown(ms, ns)
  PROVE  Outgrown(ls, ns)
<1>1. Len(ls) \in Nat /\ Len(ms) \in Nat /\ Len(ns) \in Nat
  BY LenProperties
<1>2. Len(ls) <= Len(ns) /\ \A l \in 1..Len(ls) : l \in 1..Len(ms)
  BY <1>1 DEF Outgrown
<1> QED
  BY <1>2, Zenon DEF Outgrown

-----------------------------------------------------------------------------
(* Leases only outgrow themselves, whatever the step.                      *)

(* The row insertLease writes is a lease. *)
LEMMA NewLeaseType ==
  ASSUME TypeOK, NEW d \in Devices, NEW t \in ArrivalTimes
  PROVE  NewLease(d, t) \in Lease
BY BoundsAssumption DEF TypeOK, ArrivalTimes, NewLease, Lease

(* No step takes a lease back: none is dropped, none changes its device or  *)
(* work cycle, and none that was revoked is in force again.                 *)
LEMMA LeasesOutgrow ==
  ASSUME TypeOK, [Next]_vars
  PROVE  leases' \in Seq(Lease) /\ Outgrown(leases, leases')
<1>1. leases \in Seq(Lease) /\ Len(leases) \in Nat /\ DOMAIN leases = 1..Len(leases)
  BY LenProperties DEF TypeOK
<1>2. Outgrown(leases, leases)
  BY <1>1 DEF Outgrown
<1>3. \A l \in DOMAIN leases : leases[l] \in Lease
  BY <1>1, ElementOfSeq
<1>4. ASSUME NEW d \in Devices, NEW t \in ArrivalTimes, NEW base, AcquireLease(d, base, t)
      PROVE  leases' \in Seq(Lease) /\ Outgrown(leases, leases')
  <2> DEFINE swept == ExpireLeases(leases, t)
  <2>1. swept \in Seq(Lease) /\ Outgrown(leases, swept)
    BY <1>1, ExpireLeasesProperties
  <2>2. Append(swept, NewLease(d, t)) \in Seq(Lease) /\ Outgrown(swept, Append(swept, NewLease(d, t)))
    BY <2>1, NewLeaseType, AppendLeaseProperties
  <2>3. leases' = swept \/ leases' = Append(swept, NewLease(d, t))
    BY <1>4 DEF AcquireLease
  <2> QED
    BY <1>1, <2>1, <2>2, <2>3, OutgrownTransitive
<1>5. ASSUME NEW d \in Devices, NEW t \in ArrivalTimes, TakeoverLease(d, t)
      PROVE  leases' \in Seq(Lease) /\ Outgrown(leases, leases')
  <2> DEFINE swept == ExpireLeases(leases, t)
  <2>1. swept \in Seq(Lease) /\ Outgrown(leases, swept)
    BY <1>1, ExpireLeasesProperties
  <2>2. RevokeAll(swept) \in Seq(Lease) /\ Outgrown(swept, RevokeAll(swept))
    BY <2>1, RevokeAllProperties
  <2>3. /\ Append(RevokeAll(swept), NewLease(d, t)) \in Seq(Lease)
        /\ Outgrown(RevokeAll(swept), Append(RevokeAll(swept), NewLease(d, t)))
    BY <2>2, NewLeaseType, AppendLeaseProperties
  <2>4. Outgrown(leases, RevokeAll(swept))
    BY <1>1, <2>1, <2>2, OutgrownTransitive
  <2>5. leases' = Append(RevokeAll(swept), NewLease(d, t))
    BY <1>5 DEF TakeoverLease
  <2> QED
    BY <1>1, <2>2, <2>3, <2>4, <2>5, OutgrownTransitive
<1>6. ASSUME NEW l, NEW t \in ArrivalTimes, RenewLease(l, t)
      PROVE  leases' \in Seq(Lease) /\ Outgrown(leases, leases')
  <2> DEFINE x == [leases[l] EXCEPT !.expires = t + LeaseTtl]
  <2>1. l \in 1..Len(leases) /\ leases' = [leases EXCEPT ![l] = x]
    BY <1>1, <1>6 DEF RenewLease, Holds
  <2>2. t + LeaseTtl \in Nat
    BY BoundsAssumption DEF ArrivalTimes, TypeOK
  <2>3. x \in Lease /\ x.device = leases[l].device /\ x.cycle = leases[l].cycle
    BY <1>1, <1>3, <2>1, <2>2 DEF Lease
  <2>4. x.revoked = leases[l].revoked
    BY <1>1, <1>3, <2>1 DEF Lease
  <2> HIDE DEF x
  <2> QED
    BY <1>1, <2>1, <2>3, <2>4, UpdateLeaseProperties
<1>7. ASSUME NEW l, NEW t \in ArrivalTimes, ReleaseLease(l, t)
      PROVE  leases' \in Seq(Lease) /\ Outgrown(leases, leases')
  <2> DEFINE x == [leases[l] EXCEPT !.revoked = TRUE]
  <2>1. l \in 1..Len(leases) /\ leases' = [leases EXCEPT ![l] = x]
    BY <1>1, <1>7 DEF ReleaseLease, Holds
  <2>2. x \in Lease /\ x.device = leases[l].device /\ x.cycle = leases[l].cycle /\ x.revoked
    BY <1>1, <1>3, <2>1 DEF Lease
  <2> HIDE DEF x
  <2> QED
    BY <1>1, <2>1, <2>2, UpdateLeaseProperties
<1>8. ASSUME NEW l, NEW k, NEW base, NEW c, NEW t, Commit(l, k, base, c, t)
      PROVE  leases' \in Seq(Lease) /\ Outgrown(leases, leases')
  <2> DEFINE x == [leases[l] EXCEPT !.base = syncVersion + 1]
  <2>1. l \in 1..Len(leases)
    BY <1>1, <1>8 DEF Commit, Holds
  <2>2. leases' = leases \/ leases' = [leases EXCEPT ![l] = x]
    BY <1>8 DEF Commit, ReplayCommit, ApplyCommit, RefreshBase, NextVersion
  <2> syncVersion + 1 \in Nat
    BY DEF TypeOK
  <2>3. x \in Lease /\ x.device = leases[l].device /\ x.cycle = leases[l].cycle
    BY <1>1, <1>3, <2>1 DEF Lease
  <2>4. x.revoked = leases[l].revoked
    BY <1>1, <1>3, <2>1 DEF Lease
  <2> HIDE DEF x
  <2> QED
    BY <1>1, <1>2, <2>1, <2>2, <2>3, <2>4, UpdateLeaseProperties
<1>9. CASE \/ CompleteTask
           \/ ReopenTask
           \/ \E u \in Users, explicit \in BOOLEAN : ChangeOwner(u, explicit)
           \/ ArchiveTask
           \/ DeleteTask
           \/ ArchiveProject
  <2>1. leases' = RevokeAll(leases)
    BY <1>9 DEF CompleteTask, ReopenTask, ChangeOwner, ArchiveTask, DeleteTask, ArchiveProject
  <2> QED
    BY <1>1, <2>1, RevokeAllProperties
<1>10. CASE \/ ObjectStep
            \/ \E u \in Users : MoveTask(u)
            \/ UnarchiveProject
            \/ \E d \in Devices : RevokeDevice(d)
            \/ Tick
            \/ UNCHANGED vars
  <2>1. leases' = leases
    BY <1>10 DEF ObjectStep, UploadObject, PutVerified, RegisterVerifiedObject, AbandonUpload,
                 MoveTask, UnarchiveProject, RevokeDevice, Tick, vars, access
  <2> QED
    BY <1>1, <1>2, <2>1
<1> QED
  BY <1>4, <1>5, <1>6, <1>7, <1>8, <1>9, <1>10
  DEF Next, LeaseStep, CommitStep, TaskStep

-----------------------------------------------------------------------------
(* Types and foreign keys.                                                 *)

(* A step that publishes applies one commit, and appends one version by a   *)
(* lease that is valid as it stands.                                        *)
LEMMA PublishingStep ==
  ASSUME TypeOK, [Next]_vars, <<syncVersion, versions>>' # <<syncVersion, versions>>
  PROVE  \E t \in ArrivalTimes, l \in 1..Len(leases), k \in Keys, c \in Contents,
            base \in 0..syncVersion :
            /\ Commit(l, k, base, c, t)
            /\ ApplyCommit(l, k, base, c, t)
<1>1. CommitStep
  BY DEF Next, LeaseStep, AcquireLease, TakeoverLease, RenewLease, ReleaseLease,
         ObjectStep, UploadObject, PutVerified, RegisterVerifiedObject, AbandonUpload,
         TaskStep, CompleteTask, ReopenTask, ChangeOwner, MoveTask, ArchiveTask, DeleteTask,
         ArchiveProject, UnarchiveProject, RevokeDevice, Tick, vars, head
<1>2. PICK t \in ArrivalTimes, l \in DOMAIN leases, k \in Keys, c \in Contents,
           base \in 0..syncVersion : Commit(l, k, base, c, t)
  BY <1>1 DEF CommitStep
<1>3. ApplyCommit(l, k, base, c, t)
  BY <1>2 DEF Commit, ReplayCommit, head
<1>4. DOMAIN leases = 1..Len(leases)
  BY LenProperties DEF TypeOK
<1> QED
  BY <1>2, <1>3, <1>4

(* Versions stay well typed, one per sync version, and each names a lease    *)
(* that exists, since leases only outgrow themselves.                       *)
LEMMA VersionsType ==
  ASSUME TypeOK, [Next]_vars
  PROVE  /\ syncVersion' \in 0..MaxVersion
         /\ versions' \in Seq(Version)
         /\ Len(versions') = syncVersion'
         /\ \A v \in 1..syncVersion' : versions'[v].lease <= Len(leases')
<1>1. /\ Len(leases) \in Nat /\ Len(leases') \in Nat /\ Len(leases) <= Len(leases')
      /\ \A l \in 1..Len(leases) : leases[l] \in Lease
  BY LeasesOutgrow, LenProperties, ElementOfSeq DEF TypeOK, Outgrown
<1>2. \A v \in 1..syncVersion : versions[v] \in Version
  BY ElementOfSeq DEF TypeOK
<1>3. \A v \in 1..syncVersion : versions[v].lease <= Len(leases')
  BY <1>1, <1>2 DEF TypeOK, Version
<1>4. CASE <<syncVersion, versions>>' = <<syncVersion, versions>>
  BY <1>3, <1>4 DEF TypeOK
<1>5. CASE <<syncVersion, versions>>' # <<syncVersion, versions>>
  <2>1. PICK t \in ArrivalTimes, l \in 1..Len(leases), k \in Keys, c \in Contents,
             base \in 0..syncVersion : ApplyCommit(l, k, base, c, t)
    BY <1>5, PublishingStep
  <2> DEFINE x == [device |-> leases[l].device, lease |-> l, content |-> c]
  <2>2. x \in Version /\ x.lease = l
    BY <1>1 DEF Version, Lease
  <2>3. /\ versions' = Append(versions, x)
        /\ syncVersion' = syncVersion + 1
        /\ syncVersion < MaxVersion
    BY <2>1 DEF ApplyCommit, NextVersion
  <2> HIDE DEF x
  <2>4. /\ versions' \in Seq(Version)
        /\ Len(versions') = syncVersion + 1
        /\ versions'[syncVersion + 1] = x
        /\ \A v \in 1..syncVersion : versions'[v] = versions[v]
    BY <2>2, <2>3, AppendProperties DEF TypeOK
  <2>5. syncVersion \in Nat /\ MaxVersion \in Nat /\ l <= Len(leases')
    BY <1>1, BoundsAssumption DEF TypeOK
  <2> QED
    BY <1>3, <2>2, <2>3, <2>4, <2>5
<1> QED
  BY <1>4, <1>5

(* Every handler keeps the types: the inductive step of TypeCorrectness.    *)
LEMMA TypeStep ==
  ASSUME TypeOK, [Next]_vars
  PROVE  TypeOK'
<1> DEFINE Rest ==
      /\ clock \in 0..MaxTime
      /\ revokedAt \in [Devices -> 0..Never]
      /\ lifecycle \in {"active", "frozen", "archived", "deleted"}
      /\ workCycle \in 1..MaxCycle
      /\ idempotency \subseteq CommitAck
      /\ acks \subseteq CommitAck
      /\ done \in BOOLEAN
      /\ owner \in Users
      /\ explicitOwner \in BOOLEAN
      /\ projectArchived \in BOOLEAN
      /\ completions \subseteq Completion
      /\ outlived \subseteq Outlived
      /\ uploads \subseteq Contents
      /\ stored \subseteq Contents
      /\ registered \subseteq Contents
<1> SUFFICES Rest'
  BY LeasesOutgrow, VersionsType DEF TypeOK
<1>0. Rest
  BY DEF TypeOK
<1>l. /\ Len(leases) \in Nat
      /\ DOMAIN leases = 1..Len(leases)
      /\ \A l \in 1..Len(leases) : leases[l] \in Lease
      /\ InForce(leases) \subseteq Nat
  BY LenProperties, ElementOfSeq DEF TypeOK, InForce
<1>n. syncVersion \in Nat /\ workCycle \in Nat /\ clock \in Nat /\ MaxTime \in Nat /\ MaxCycle \in Nat
  BY BoundsAssumption DEF TypeOK
<1>1. CASE LeaseStep
  BY <1>0, <1>1 DEF LeaseStep, AcquireLease, TakeoverLease, RenewLease, ReleaseLease,
                    head, commitLog, taskState, objects
<1>2. CASE ObjectStep
  BY <1>0, <1>2 DEF ObjectStep, UploadObject, PutVerified, RegisterVerifiedObject, AbandonUpload,
                    head, access, commitLog, taskState
<1>3. CASE CommitStep
  <2>1. PICK t \in ArrivalTimes, l \in DOMAIN leases, k \in Keys, c \in Contents,
             base \in 0..syncVersion : Commit(l, k, base, c, t)
    BY <1>3 DEF CommitStep
  <2>2. leases[l].device \in Devices
    BY <1>l DEF Lease
  <2>3. CASE ReplayCommit(leases[l].device, k, base, c)
    <3>1. PICK r \in idempotency :
            acks' = acks \cup {Ack(leases[l].device, k, base, c, r.version)}
      BY <2>3 DEF ReplayCommit, RecordsFor
    <3>2. Ack(leases[l].device, k, base, c, r.version) \in CommitAck
      BY <1>0, <1>n, <2>2, <3>1 DEF Ack, CommitAck
    <3> QED
      BY <1>0, <2>1, <2>3, <3>1, <3>2 DEF Commit, ReplayCommit, head, taskState, objects
  <2>4. CASE ApplyCommit(l, k, base, c, t)
    <3>1. Ack(leases[l].device, k, base, c, syncVersion + 1) \in CommitAck
      BY <1>n, <2>2 DEF Ack, CommitAck
    <3> QED
      BY <1>0, <2>1, <2>4, <3>1 DEF Commit, ApplyCommit, NextVersion, taskState, objects
  <2> QED
    BY <2>1, <2>3, <2>4 DEF Commit
<1>4. CASE CompleteTask
  BY <1>0, <1>n, <1>4 DEF CompleteTask, Completion, commitLog, objects
<1>5. CASE ReopenTask
  <2>1. workCycle' \in 1..MaxCycle
    BY <1>n, <1>5 DEF ReopenTask, NextCycle
  <2> QED
    BY <1>0, <1>5, <2>1 DEF ReopenTask, commitLog, objects
<1>6. ASSUME NEW u \in Users, NEW explicit \in BOOLEAN, ChangeOwner(u, explicit)
      PROVE  Rest'
  BY <1>0, <1>l, <1>6 DEF ChangeOwner, Outlived, head, commitLog, taskState, objects
<1>7. ASSUME NEW u \in Users, MoveTask(u)
      PROVE  Rest'
  <2>1. outlived' \subseteq outlived \cup [lease : InForce(leases), by : {"move"}]
    BY <1>7 DEF MoveTask
  <2>2. outlived' \subseteq Outlived
    BY <1>0, <1>l, <2>1 DEF Outlived
  <2> QED
    BY <1>0, <1>7, <2>2 DEF MoveTask, head, commitLog, taskState, objects
<1>8. CASE ArchiveTask \/ DeleteTask
  BY <1>0, <1>8 DEF ArchiveTask, DeleteTask, commitLog, taskState, objects
<1>9. CASE ArchiveProject \/ UnarchiveProject
  BY <1>0, <1>9 DEF ArchiveProject, UnarchiveProject, head, access, commitLog, objects
<1>10. ASSUME NEW d \in Devices, RevokeDevice(d)
       PROVE  Rest'
  BY <1>0, <1>n, <1>10 DEF RevokeDevice, Never, head, commitLog, taskState, objects
<1>11. CASE Tick
  BY <1>0, <1>n, <1>11 DEF Tick, head, access, commitLog, taskState, objects
<1>12. CASE UNCHANGED vars
  BY <1>0, <1>12 DEF vars, head, access, commitLog, taskState, objects
<1> QED
  BY <1>1, <1>2, <1>3, <1>4, <1>5, <1>6, <1>7, <1>8, <1>9, <1>10, <1>11, <1>12
  DEF Next, TaskStep

(* Type correctness of the server: the columns keep their types, and every  *)
(* foreign key of the tables resolves.                                      *)
THEOREM TypeCorrectness == Spec => []TypeOK
<1>1. Init => TypeOK
  <2> SUFFICES ASSUME Init PROVE TypeOK
    OBVIOUS
  <2>1. /\ <<>> \in Seq(Version) /\ <<>> \in Seq(Lease)
        /\ Len(versions) = 0 /\ Len(leases) = 0
    BY EmptySeq DEF Init
  <2>2. \A v \in 1..syncVersion : versions[v].lease <= Len(leases)
    BY DEF Init
  <2>3. MaxTime \in Nat /\ MaxVersion \in Nat /\ MaxCycle \in Nat \ {0}
    BY BoundsAssumption
  <2>4. clock \in 0..MaxTime /\ syncVersion \in 0..MaxVersion /\ workCycle \in 1..MaxCycle
    BY <2>3 DEF Init
  <2>5. revokedAt \in [Devices -> 0..Never]
    BY <2>3 DEF Init, Never
  <2> QED
    BY <2>1, <2>2, <2>4, <2>5, PreloadedAssumption DEF Init, TypeOK
<1>2. TypeOK /\ [Next]_vars => TypeOK'
  BY TypeStep
<1> QED
  BY <1>1, <1>2, PTL DEF Spec

-----------------------------------------------------------------------------
(* One writer, at the head of the workspace.  The two facts are inductive   *)
(* together: a commit refreshes the base of its own lease only, which       *)
(* leaves no lease behind because there is no other; and acquisition need   *)
(* not look at cycles because freezing revoked what was granted before.     *)

(* What is inductive: neither OneWriter nor LeaseAtHead is, without the other. *)
WriterInv == TypeOK /\ OneWriter /\ LeaseAtHead

(* The inductive step of WriterInvariance, one step per handler: a lease is *)
(* granted only where every earlier one is revoked, a commit refreshes the   *)
(* base of the one lease in force, and whatever closes the workspace revokes *)
(* them all.                                                                *)
LEMMA WriterStep ==
  ASSUME WriterInv, [Next]_vars
  PROVE  OneWriter' /\ LeaseAtHead'
<1> USE DEF WriterInv
<1>1. /\ leases \in Seq(Lease)
      /\ Len(leases) \in Nat
      /\ DOMAIN leases = 1..Len(leases)
      /\ \A l \in 1..Len(leases) : leases[l] \in Lease
      /\ InForce(leases) \subseteq 1..Len(leases)
  BY LenProperties, ElementOfSeq DEF TypeOK, InForce
<1>2. ASSUME NEW d \in Devices, NEW t \in ArrivalTimes, NEW base, AcquireLease(d, base, t)
      PROVE  OneWriter' /\ LeaseAtHead'
  <2> DEFINE swept == ExpireLeases(leases, t)
             new == NewLease(d, t)
  <2>1. /\ swept \in Seq(Lease) /\ Len(swept) = Len(leases)
        /\ InForce(swept) \subseteq InForce(leases)
        /\ \A l \in 1..Len(leases) : swept[l].base = leases[l].base /\ swept[l].cycle = leases[l].cycle
    BY <1>1, ExpireLeasesProperties DEF Outgrown
  <2>2. /\ lifecycle = "active" /\ ~projectArchived
        /\ <<lifecycle, workCycle, syncVersion, projectArchived>>'
             = <<lifecycle, workCycle, syncVersion, projectArchived>>
    BY <1>2 DEF AcquireLease, Admitted, Writable, head, taskState
  <2> HIDE DEF swept, new
  <2>3. CASE leases' = swept
    BY <1>1, <2>1, <2>2, <2>3 DEF OneWriter, LeaseAtHead
  <2>4. CASE InForce(swept) = {} /\ leases' = Append(swept, new)
    <3>1. new \in Lease /\ new.cycle = workCycle /\ new.base = syncVersion
      BY NewLeaseType DEF new, NewLease
    <3>2. /\ Len(leases') = Len(leases) + 1
          /\ leases'[Len(leases')] = new
          /\ InForce(leases') \subseteq {Len(leases')}
      BY <2>1, <2>4, <3>1, AppendLeaseProperties
    <3> QED
      BY <2>2, <3>1, <3>2 DEF OneWriter, LeaseAtHead
  <2> QED
    BY <1>2, <2>3, <2>4 DEF AcquireLease, swept, new
<1>3. ASSUME NEW d \in Devices, NEW t \in ArrivalTimes, TakeoverLease(d, t)
      PROVE  OneWriter' /\ LeaseAtHead'
  <2> DEFINE cleared == RevokeAll(ExpireLeases(leases, t))
             new == NewLease(d, t)
  <2>1. cleared \in Seq(Lease) /\ InForce(cleared) = {}
    BY <1>1, ExpireLeasesProperties, RevokeAllProperties
  <2>2. /\ lifecycle = "active" /\ ~projectArchived
        /\ <<lifecycle, workCycle, syncVersion, projectArchived>>'
             = <<lifecycle, workCycle, syncVersion, projectArchived>>
        /\ leases' = Append(cleared, new)
    BY <1>3 DEF TakeoverLease, Admitted, Writable, head, taskState
  <2>3. new \in Lease /\ new.cycle = workCycle /\ new.base = syncVersion
    BY NewLeaseType DEF NewLease
  <2> HIDE DEF cleared, new
  <2>4. leases'[Len(leases')] = new /\ InForce(leases') \subseteq {Len(leases')}
    BY <2>1, <2>2, <2>3, AppendLeaseProperties
  <2> QED
    BY <2>2, <2>3, <2>4 DEF OneWriter, LeaseAtHead
<1>4. ASSUME NEW l, NEW t \in ArrivalTimes, RenewLease(l, t) \/ ReleaseLease(l, t)
      PROVE  OneWriter' /\ LeaseAtHead'
  <2> DEFINE x == [leases[l] EXCEPT !.expires = t + LeaseTtl]
             y == [leases[l] EXCEPT !.revoked = TRUE]
  <2>1. /\ l \in 1..Len(leases)
        /\ leases' = [leases EXCEPT ![l] = x] \/ leases' = [leases EXCEPT ![l] = y]
        /\ <<lifecycle, workCycle, syncVersion, projectArchived>>'
             = <<lifecycle, workCycle, syncVersion, projectArchived>>
    BY <1>1, <1>4 DEF RenewLease, ReleaseLease, Holds, head, taskState
  <2>2. t + LeaseTtl \in Nat
    BY BoundsAssumption DEF ArrivalTimes, TypeOK
  <2>3. /\ x \in Lease /\ x.device = leases[l].device
        /\ x.cycle = leases[l].cycle /\ x.base = leases[l].base
    BY <1>1, <2>1, <2>2 DEF Lease
  <2>4. x.revoked = leases[l].revoked
    BY <1>1, <2>1 DEF Lease
  <2>5. /\ y \in Lease /\ y.device = leases[l].device
        /\ y.cycle = leases[l].cycle /\ y.base = leases[l].base /\ y.revoked
    BY <1>1, <2>1 DEF Lease
  <2> HIDE DEF x, y
  <2>6. /\ Len(leases') = Len(leases)
        /\ InForce(leases') \subseteq InForce(leases)
        /\ \A m \in 1..Len(leases) :
             leases'[m].cycle = leases[m].cycle /\ leases'[m].base = leases[m].base
    BY <1>1, <2>1, <2>3, <2>4, <2>5, UpdateLeaseProperties
  <2> QED
    BY <1>1, <2>1, <2>6 DEF OneWriter, LeaseAtHead
<1>5. ASSUME NEW l, NEW k, NEW base, NEW c, NEW t, Commit(l, k, base, c, t)
      PROVE  OneWriter' /\ LeaseAtHead'
  <2>0. projectArchived' = projectArchived
    BY <1>5 DEF Commit, taskState
  <2>1. CASE ReplayCommit(leases[l].device, k, base, c)
    BY <2>0, <2>1 DEF ReplayCommit, head, OneWriter, LeaseAtHead
  <2>2. CASE ApplyCommit(l, k, base, c, t)
    <3> DEFINE x == [leases[l] EXCEPT !.base = syncVersion + 1]
    <3>1. /\ l \in 1..Len(leases)
          /\ ~leases[l].revoked
          /\ leases' = [leases EXCEPT ![l] = x]
          /\ syncVersion' = syncVersion + 1
          /\ <<lifecycle, workCycle>>' = <<lifecycle, workCycle>>
      BY <1>1, <1>5, <2>2
      DEF Commit, Holds, ApplyCommit, ValidLease, RefreshBase, NextVersion
    <3>2. syncVersion + 1 \in Nat
      BY DEF TypeOK
    <3>3. /\ x \in Lease /\ x.device = leases[l].device
          /\ x.cycle = leases[l].cycle /\ x.base = syncVersion + 1
      BY <1>1, <3>1, <3>2 DEF Lease
    <3>4. x.revoked = leases[l].revoked
      BY <1>1, <3>1 DEF Lease
    <3>5. l = Len(leases) /\ l \in InForce(leases)
      BY <1>1, <3>1 DEF InForce, OneWriter
    <3> HIDE DEF x
    <3>6. /\ Len(leases') = Len(leases)
          /\ InForce(leases') \subseteq InForce(leases)
          /\ leases'[l] = x
      BY <1>1, <3>1, <3>3, <3>4, UpdateLeaseProperties
    <3> QED
      BY <2>0, <3>1, <3>3, <3>5, <3>6 DEF OneWriter, LeaseAtHead
  <2> QED
    BY <1>5, <2>1, <2>2 DEF Commit
<1>6. CASE \/ CompleteTask
           \/ ReopenTask
           \/ \E u \in Users, explicit \in BOOLEAN : ChangeOwner(u, explicit)
           \/ ArchiveTask
           \/ DeleteTask
           \/ ArchiveProject
  <2>1. leases' = RevokeAll(leases)
    BY <1>6 DEF CompleteTask, ReopenTask, ChangeOwner, ArchiveTask, DeleteTask, ArchiveProject
  <2>2. InForce(leases') = {}
    BY <1>1, <2>1, RevokeAllProperties
  <2> QED
    BY <2>2 DEF OneWriter, LeaseAtHead
<1>7. CASE \/ ObjectStep
           \/ \E u \in Users : MoveTask(u)
           \/ UnarchiveProject
           \/ \E d \in Devices : RevokeDevice(d)
           \/ Tick
           \/ UNCHANGED vars
  <2>1. /\ leases' = leases
        /\ <<lifecycle, workCycle, syncVersion>>' = <<lifecycle, workCycle, syncVersion>>
        /\ projectArchived' = projectArchived \/ projectArchived' = FALSE
    BY <1>7 DEF ObjectStep, UploadObject, PutVerified, RegisterVerifiedObject, AbandonUpload,
                MoveTask, UnarchiveProject, RevokeDevice, Tick, vars, head, access, taskState
  <2> QED
    BY <2>1 DEF OneWriter, LeaseAtHead
<1> QED
  BY <1>2, <1>3, <1>4, <1>5, <1>6, <1>7
  DEF Next, LeaseStep, CommitStep, TaskStep

(* The writer invariant holds throughout. *)
LEMMA WriterInvariance == Spec => []WriterInv
<1>1. Init => OneWriter /\ LeaseAtHead
  BY DEF Init, OneWriter, LeaseAtHead, InForce
<1>2. WriterInv /\ [Next]_vars => OneWriter' /\ LeaseAtHead'
  BY WriterStep
<1> QED
  BY <1>1, <1>2, TypeCorrectness, PTL DEF Spec, WriterInv

(* At most one device may write the workspace, and it is the one that was   *)
(* granted the newest lease.                                                *)
THEOREM SingleWriter == Spec => []OneWriter
BY WriterInvariance, PTL DEF WriterInv

(* The lease in force is at the head of a writable workspace. *)
THEOREM LeasesStandAtHead == Spec => []LeaseAtHead
BY WriterInvariance, PTL DEF WriterInv

(* A version is published by the newest lease only: fencing. *)
THEOREM Fencing == Spec => NewestLeaseWrites
<1>1. ASSUME WriterInv, [Next]_vars, syncVersion' # syncVersion
      PROVE  versions'[syncVersion'].lease = Len(leases)
  <2>1. PICK t \in ArrivalTimes, l \in 1..Len(leases), k \in Keys, c \in Contents,
             base \in 0..syncVersion : Commit(l, k, base, c, t) /\ ApplyCommit(l, k, base, c, t)
    BY <1>1, PublishingStep DEF WriterInv
  <2>2. l \in InForce(leases)
    <3>1. ~leases[l].revoked /\ l \in DOMAIN leases
      BY <2>1 DEF Commit, Holds, ApplyCommit, ValidLease
    <3> QED
      BY <3>1 DEF InForce
  <2>3. l = Len(leases)
    BY <1>1, <2>2 DEF WriterInv, OneWriter
  <2> DEFINE x == [device |-> leases[l].device, lease |-> l, content |-> c]
  <2>4. /\ versions' = Append(versions, x)
        /\ syncVersion' = syncVersion + 1
    BY <2>1 DEF ApplyCommit, NextVersion
  <2>5. versions \in Seq(Version) /\ Len(versions) = syncVersion /\ leases[l] \in Lease /\ l \in Nat \ {0}
    BY <1>1, <2>1, ElementOfSeq, LenProperties DEF WriterInv, TypeOK
  <2>6. x \in Version /\ x.lease = l
    BY <2>5 DEF Version, Lease
  <2> HIDE DEF x
  <2>7. versions'[syncVersion'] = x
    BY <2>4, <2>5, <2>6, AppendProperties
  <2> QED
    BY <2>3, <2>6, <2>7
<1> QED
  BY <1>1, WriterInvariance, PTL DEF Spec, NewestLeaseWrites

-----------------------------------------------------------------------------
(* What becomes of what was published: versions can be read back, stay      *)
(* within the work cycle that made them, answer their commits for good, and *)
(* are made by no lease that a change of owner outlived.  With the writer   *)
(* invariant this shows that the server implements WorkspaceHistory.        *)

(* The shape of every step.                                                *)

(* The row a commit inserts into workspace_versions. *)
Row(l, c) == [device |-> leases[l].device, lease |-> l, content |-> c]

(* A step that publishes appends the row of the lease in force, with a      *)
(* manifest whose objects are there, and leaves every older version alone.  *)
LEMMA Publication ==
  ASSUME WriterInv, NEW l, NEW k, NEW base, NEW c, NEW t,
         Commit(l, k, base, c, t), ApplyCommit(l, k, base, c, t)
  PROVE  /\ l \in InForce(leases)
         /\ l \in 1..Len(leases)
         /\ l = Len(leases)
         /\ syncVersion' = syncVersion + 1
         /\ Row(l, c).lease = l
         /\ Row(l, c).content = c
         /\ Row(l, c).device = leases[l].device
         /\ versions' = Append(versions, Row(l, c))
         /\ versions'[syncVersion + 1] = Row(l, c)
         /\ \A v \in 1..syncVersion : versions'[v] = versions[v]
<1>1. /\ l \in DOMAIN leases
      /\ ~leases[l].revoked
      /\ versions' = Append(versions, Row(l, c))
      /\ syncVersion' = syncVersion + 1
  BY DEF Commit, Holds, ApplyCommit, ValidLease, NextVersion, Row
<1>2. /\ leases \in Seq(Lease)
      /\ versions \in Seq(Version)
      /\ Len(versions) = syncVersion
      /\ DOMAIN leases = 1..Len(leases)
  BY LenProperties DEF WriterInv, TypeOK
<1>3. l \in InForce(leases) /\ l = Len(leases)
  BY <1>1 DEF InForce, WriterInv, OneWriter
<1>4. leases[l] \in Lease /\ l \in Nat \ {0}
  BY <1>1, <1>2, ElementOfSeq, LenProperties
<1>5. c \in Contents
  BY DEF Commit, WriterInv, TypeOK
<1>6. Row(l, c) \in Version
  BY <1>4, <1>5 DEF Row, Version, Lease
<1>7. /\ versions'[syncVersion + 1] = Row(l, c)
      /\ \A v \in 1..syncVersion : versions'[v] = versions[v]
  BY <1>1, <1>2, <1>6, AppendProperties
<1> QED
  BY <1>1, <1>2, <1>3, <1>7 DEF Row

(* Any other step leaves the versions alone. *)
LEMMA PublishesOrNot ==
  ASSUME WriterInv, [Next]_vars
  PROVE  \/ UNCHANGED <<syncVersion, versions>>
         \/ \E t \in ArrivalTimes, l \in 1..Len(leases), k \in Keys, c \in Contents,
               base \in 0..syncVersion :
               /\ Commit(l, k, base, c, t)
               /\ ApplyCommit(l, k, base, c, t)
BY PublishingStep DEF WriterInv

(* A version keeps its lease, and the lease its work cycle. *)
LEMMA CyclesAreKept ==
  ASSUME WriterInv, [Next]_vars, NEW v \in 1..syncVersion
  PROVE  /\ versions'[v] = versions[v]
         /\ versions[v].lease \in 1..Len(leases)
         /\ leases'[versions[v].lease].cycle = leases[versions[v].lease].cycle
<1>1. versions'[v] = versions[v]
  BY PublishesOrNot, Publication
<1>2. versions[v] \in Version /\ versions[v].lease <= Len(leases) /\ Len(leases) \in Nat
  BY ElementOfSeq, LenProperties DEF WriterInv, TypeOK
<1>3. versions[v].lease \in 1..Len(leases)
  BY <1>2 DEF Version
<1>4. Outgrown(leases, leases')
  BY LeasesOutgrow DEF WriterInv
<1> QED
  BY <1>1, <1>3, <1>4 DEF Outgrown

-----------------------------------------------------------------------------
(* Reading back.                                                           *)

(* Objects and their rows are only ever added, the row after the bytes.     *)
LEMMA ObjectsAccumulate ==
  ASSUME TypeOK, registered \subseteq stored, [Next]_vars
  PROVE  /\ registered \subseteq registered'
         /\ registered' \subseteq stored'
<1>1. CASE ObjectStep
  BY <1>1 DEF ObjectStep, UploadObject, PutVerified, RegisterVerifiedObject, AbandonUpload
<1>2. CASE ~ObjectStep
  <2>1. UNCHANGED objects
    BY <1>2 DEF Next, LeaseStep, AcquireLease, TakeoverLease, RenewLease, ReleaseLease,
           CommitStep, Commit, TaskStep, CompleteTask, ReopenTask, ChangeOwner, MoveTask,
           ArchiveTask, DeleteTask, ArchiveProject, UnarchiveProject, RevokeDevice, Tick, vars
  <2> QED
    BY <2>1 DEF objects
<1> QED
  BY <1>1, <1>2

(* Every published manifest can be read back, however the uploads and the   *)
(* commits of several devices interleave (putVerified stores before         *)
(* registerVerifiedObject inserts, assertObjectsAvailable checks both).     *)
THEOREM Readable == Spec => []VersionsReadable
<1>1. Init => VersionsReadable
  BY DEF Init, VersionsReadable
<1>2. ASSUME WriterInv, VersionsReadable, [Next]_vars
      PROVE  VersionsReadable'
  <2>1. registered \subseteq registered' /\ registered' \subseteq stored'
    BY <1>2, ObjectsAccumulate DEF WriterInv, VersionsReadable
  <2>2. CASE UNCHANGED <<syncVersion, versions>>
    BY <1>2, <2>1, <2>2 DEF VersionsReadable
  <2>3. ASSUME NEW l, NEW k, NEW base, NEW c, NEW t,
               Commit(l, k, base, c, t), ApplyCommit(l, k, base, c, t)
        PROVE  VersionsReadable'
    <3>1. /\ syncVersion' = syncVersion + 1
          /\ versions'[syncVersion + 1].content = c
          /\ \A v \in 1..syncVersion : versions'[v] = versions[v]
      BY <1>2, <2>3, Publication
    <3>2. c \in registered
      BY <2>3 DEF Commit
    <3>3. syncVersion \in Nat
      BY <1>2, BoundsAssumption DEF WriterInv, TypeOK
    <3> QED
      BY <1>2, <2>1, <3>1, <3>2, <3>3 DEF VersionsReadable
  <2> QED
    BY <1>2, <2>2, <2>3, PublishesOrNot
<1> QED
  BY <1>1, <1>2, WriterInvariance, PTL DEF Spec

-----------------------------------------------------------------------------
(* Changing the owner fences.                                              *)

(* What changeOwner found in force is revoked, and nothing brings it back.  *)
ChangedAreRevoked ==
  \A o \in outlived : o.by = "change" =>
    o.lease \in 1..Len(leases) /\ leases[o.lease].revoked

(* The inductive step of ChangedRevoked. *)
LEMMA ChangedStep ==
  ASSUME WriterInv, ChangedAreRevoked, [Next]_vars
  PROVE  ChangedAreRevoked'
<1>1. /\ Outgrown(leases, leases')
      /\ leases \in Seq(Lease)
      /\ leases' \in Seq(Lease)
      /\ Len(leases) \in Nat
      /\ Len(leases') \in Nat
      /\ DOMAIN leases = 1..Len(leases)
  BY LeasesOutgrow, LenProperties DEF WriterInv, TypeOK
<1>2. 1..Len(leases) \subseteq 1..Len(leases')
  BY <1>1 DEF Outgrown
<1>3. ASSUME NEW o \in outlived, o.by = "change"
      PROVE  o.lease \in 1..Len(leases') /\ leases'[o.lease].revoked
  BY <1>1, <1>2, <1>3 DEF ChangedAreRevoked, Outgrown
<1>4. CASE outlived' = outlived
  BY <1>3, <1>4 DEF ChangedAreRevoked
<1>5. ASSUME NEW u, NEW explicit, ChangeOwner(u, explicit)
      PROVE  ChangedAreRevoked'
  <2>1. /\ outlived' = outlived \cup [lease : InForce(leases), by : {"change"}]
        /\ leases' = RevokeAll(leases)
    BY <1>5 DEF ChangeOwner
  <2>2. \A l \in 1..Len(leases) : leases'[l].revoked
    <3>1. InForce(leases') = {} /\ Len(leases') = Len(leases)
      BY <1>1, <2>1, RevokeAllProperties
    <3>2. DOMAIN leases' = 1..Len(leases)
      BY <1>1, <3>1, LenProperties
    <3> QED
      BY <3>1, <3>2, Zenon DEF InForce
  <2>3. InForce(leases) \subseteq 1..Len(leases)
    BY <1>1 DEF InForce
  <2>4. ASSUME NEW o \in [lease : InForce(leases), by : {"change"}]
        PROVE  o.lease \in 1..Len(leases') /\ leases'[o.lease].revoked
    BY <1>2, <2>2, <2>3
  <2> QED
    BY <1>3, <2>1, <2>4 DEF ChangedAreRevoked
<1>6. ASSUME NEW u, MoveTask(u)
      PROVE  ChangedAreRevoked'
  <2>1. \A o \in outlived' : o.by = "change" => o \in outlived
    BY <1>6 DEF MoveTask
  <2> QED
    BY <1>3, <2>1 DEF ChangedAreRevoked
<1>7. CASE ~ \/ \E u \in Users, explicit \in BOOLEAN : ChangeOwner(u, explicit)
             \/ \E u \in Users : MoveTask(u)
  <2>1. outlived' = outlived
    BY <1>7 DEF Next, LeaseStep, AcquireLease, TakeoverLease, RenewLease, ReleaseLease,
           ObjectStep, UploadObject, PutVerified, RegisterVerifiedObject, AbandonUpload,
           CommitStep, Commit, TaskStep, CompleteTask, ReopenTask,
           ArchiveTask, DeleteTask, ArchiveProject, UnarchiveProject, RevokeDevice, Tick,
           vars, access
  <2> QED
    BY <1>4, <2>1
<1> QED
  BY <1>5, <1>6, <1>7

(* A lease that a change of owner outlived stays revoked. *)
LEMMA ChangedRevoked == Spec => []ChangedAreRevoked
<1>1. Init => ChangedAreRevoked
  BY DEF Init, ChangedAreRevoked
<1>2. WriterInv /\ ChangedAreRevoked /\ [Next]_vars => ChangedAreRevoked'
  BY ChangedStep
<1> QED
  BY <1>1, <1>2, WriterInvariance, PTL DEF Spec

(* changeOwner fences: what was in force when it ran publishes nothing      *)
(* afterwards, also when its user is made the owner again.                  *)
THEOREM OwnerFencing == Spec => OwnerChangeFences
<1>1. ASSUME WriterInv, ChangedAreRevoked, [Next]_vars, syncVersion' # syncVersion
      PROVE  [lease |-> versions'[syncVersion'].lease, by |-> "change"] \notin outlived
  <2>1. PICK t \in ArrivalTimes, l \in 1..Len(leases), k \in Keys, c \in Contents,
             base \in 0..syncVersion : Commit(l, k, base, c, t) /\ ApplyCommit(l, k, base, c, t)
    BY <1>1, PublishesOrNot
  <2>2. versions'[syncVersion'].lease = l /\ l \in InForce(leases)
    BY <1>1, <2>1, Publication
  <2>3. ~leases[l].revoked
    BY <2>2 DEF InForce
  <2> QED
    BY <1>1, <2>2, <2>3 DEF ChangedAreRevoked
<1> QED
  BY <1>1, WriterInvariance, ChangedRevoked, PTL DEF Spec, OwnerChangeFences

-----------------------------------------------------------------------------
(* Completion snapshots.                                                   *)

(* What is inductive: no version is of a later cycle than the workspace,    *)
(* and the cycle that is being worked in has no snapshot yet.               *)
CyclesAdvance ==
  /\ \A v \in 1..syncVersion : leases[versions[v].lease].cycle <= workCycle
  /\ \A s \in completions :
       /\ s.version <= syncVersion
       /\ s.cycle <= workCycle
       /\ lifecycle = "active" => s.cycle < workCycle

SnapshotInv == CyclesAdvance /\ SnapshotIsFinal

(* The inductive step of SnapshotFinality: a version is published in a       *)
(* later cycle than every snapshot, a snapshot after every version.         *)
LEMMA SnapshotStep ==
  ASSUME WriterInv, SnapshotInv, [Next]_vars
  PROVE  SnapshotInv'
<1> DEFINE cyc(v) == leases[versions[v].lease].cycle
<1>1. /\ syncVersion \in Nat
      /\ workCycle \in Nat
      /\ completions \subseteq Completion
      /\ \A v \in 1..syncVersion : cyc(v) \in Nat
  <2>1. ASSUME NEW v \in 1..syncVersion
        PROVE  cyc(v) \in Nat
    <3>1. versions[v].lease \in 1..Len(leases)
      BY CyclesAreKept
    <3>2. leases[versions[v].lease] \in Lease
      BY <3>1, ElementOfSeq DEF WriterInv, TypeOK
    <3> QED
      BY <3>2 DEF Lease
  <2> QED
    BY <2>1, BoundsAssumption DEF WriterInv, TypeOK
<1>2. \A v \in 1..syncVersion : leases'[versions'[v].lease].cycle = cyc(v)
  BY CyclesAreKept
<1>3. CASE UNCHANGED <<syncVersion, versions>>
  <2>1. CASE UNCHANGED <<workCycle, completions>> /\ (lifecycle' = "active" => lifecycle = "active")
    BY <1>2, <1>3, <2>1 DEF SnapshotInv, CyclesAdvance, SnapshotIsFinal
  <2>2. CASE CompleteTask
    <3> DEFINE s == [cycle |-> workCycle, version |-> syncVersion]
    <3>1. /\ completions' = completions \cup {s}
          /\ s.cycle = workCycle
          /\ s.version = syncVersion
          /\ workCycle' = workCycle
          /\ lifecycle' = "frozen"
      BY <2>2 DEF CompleteTask
    <3> HIDE DEF s
    <3>2. CyclesAdvance'
      BY <1>1, <1>2, <1>3, <3>1 DEF SnapshotInv, CyclesAdvance, Completion
    <3>3. \A v \in 1..syncVersion : cyc(v) <= s.cycle <=> v <= s.version
      BY <1>1, <3>1 DEF SnapshotInv, CyclesAdvance
    <3>4. SnapshotIsFinal'
      BY <1>2, <1>3, <3>1, <3>3 DEF SnapshotInv, SnapshotIsFinal
    <3> QED
      BY <3>2, <3>4 DEF SnapshotInv
  <2>3. CASE ReopenTask
    <3>1. workCycle' = workCycle + 1 /\ completions' = completions
      BY <2>3 DEF ReopenTask, NextCycle
    <3>2. CyclesAdvance'
      BY <1>1, <1>2, <1>3, <3>1 DEF SnapshotInv, CyclesAdvance, Completion
    <3>3. SnapshotIsFinal'
      BY <1>2, <1>3, <3>1 DEF SnapshotInv, SnapshotIsFinal
    <3> QED
      BY <3>2, <3>3 DEF SnapshotInv
  <2>4. CASE ~(CompleteTask \/ ReopenTask)
    <3>1. CASE LeaseStep \/ ObjectStep \/ CommitStep \/ Tick \/ UNCHANGED vars
      <4>1. UNCHANGED <<lifecycle, workCycle, completions>>
        <5>1. CASE LeaseStep
          BY <5>1 DEF LeaseStep, AcquireLease, TakeoverLease, RenewLease, ReleaseLease,
                      head, taskState
        <5>2. CASE ObjectStep
          BY <5>2 DEF ObjectStep, UploadObject, PutVerified, RegisterVerifiedObject,
                      AbandonUpload, head, taskState
        <5>3. CASE CommitStep
          BY <5>3 DEF CommitStep, Commit, ReplayCommit, ApplyCommit, head, taskState
        <5>4. CASE Tick \/ UNCHANGED vars
          BY <5>4 DEF Tick, vars, head, taskState
        <5> QED
          BY <3>1, <5>1, <5>2, <5>3, <5>4
      <4> QED
        BY <2>1, <4>1
    <3>2. CASE \/ \E u \in Users, explicit \in BOOLEAN : ChangeOwner(u, explicit)
               \/ \E u \in Users : MoveTask(u)
               \/ ArchiveTask
               \/ DeleteTask
               \/ ArchiveProject
               \/ UnarchiveProject
               \/ \E d \in Devices : RevokeDevice(d)
      <4>1. UNCHANGED <<workCycle, completions>> /\ (lifecycle' = "active" => lifecycle = "active")
        BY <3>2 DEF ChangeOwner, MoveTask, ArchiveTask, DeleteTask, ArchiveProject,
             UnarchiveProject, RevokeDevice, head, taskState
      <4> QED
        BY <2>1, <4>1
    <3> QED
      BY <2>4, <3>1, <3>2 DEF Next, TaskStep
  <2> QED
    BY <2>2, <2>3, <2>4
<1>4. ASSUME NEW l, NEW k, NEW base, NEW c, NEW t,
             Commit(l, k, base, c, t), ApplyCommit(l, k, base, c, t)
      PROVE  SnapshotInv'
  <2>1. /\ syncVersion' = syncVersion + 1
        /\ versions'[syncVersion + 1].lease = l
        /\ l \in InForce(leases)
        /\ l \in 1..Len(leases)
    BY <1>4, Publication
  <2>2. leases[l].cycle = workCycle /\ lifecycle = "active"
    BY <2>1 DEF WriterInv, LeaseAtHead
  <2>3. leases'[l].cycle = workCycle
    BY <2>1, <2>2, LeasesOutgrow DEF WriterInv, Outgrown
  <2>4. UNCHANGED <<workCycle, lifecycle, completions>>
    BY <1>4 DEF Commit, ApplyCommit, taskState
  <2>5. \A v \in 1..syncVersion' : v \in 1..syncVersion \/ v = syncVersion + 1
    BY <1>1, <2>1
  <2>6. CyclesAdvance'
    <3>1. \A v \in 1..syncVersion' : leases'[versions'[v].lease].cycle <= workCycle'
      BY <1>1, <1>2, <2>1, <2>3, <2>4, <2>5 DEF SnapshotInv, CyclesAdvance
    <3>2. \A s \in completions' :
            /\ s.version <= syncVersion'
            /\ s.cycle <= workCycle'
            /\ lifecycle' = "active" => s.cycle < workCycle'
      BY <1>1, <2>1, <2>4 DEF SnapshotInv, CyclesAdvance, Completion
    <3> QED
      BY <3>1, <3>2 DEF CyclesAdvance
  <2>7. ASSUME NEW s \in completions, NEW v \in 1..syncVersion'
        PROVE  leases'[versions'[v].lease].cycle <= s.cycle <=> v <= s.version
    <3>0. s.cycle < workCycle /\ s.version <= syncVersion /\ s.cycle \in Nat /\ s.version \in Nat
      BY <1>1, <2>2 DEF SnapshotInv, CyclesAdvance, Completion
    <3>1. CASE v \in 1..syncVersion
      BY <1>2, <3>1 DEF SnapshotInv, SnapshotIsFinal
    <3>2. CASE v = syncVersion + 1
      BY <1>1, <2>1, <2>3, <3>0, <3>2
    <3> QED
      BY <2>5, <3>1, <3>2
  <2>8. SnapshotIsFinal'
    BY <2>4, <2>7 DEF SnapshotIsFinal
  <2> QED
    BY <2>6, <2>8 DEF SnapshotInv
<1> QED
  BY <1>3, <1>4, PublishesOrNot

(* A completion snapshot is final: completing freezes the workspace and a    *)
(* reopen starts a new cycle, so no commit, however late, gets under it.    *)
THEOREM SnapshotFinality == Spec => []SnapshotIsFinal
<1>1. Init => SnapshotInv
  BY DEF Init, SnapshotInv, CyclesAdvance, SnapshotIsFinal
<1>2. WriterInv /\ SnapshotInv /\ [Next]_vars => SnapshotInv'
  BY SnapshotStep
<1> QED
  BY <1>1, <1>2, WriterInvariance, PTL DEF Spec, SnapshotInv

-----------------------------------------------------------------------------
(* Answers.                                                                *)

(* What a record of the log says, of the history and of the other records.  *)
Stands(a) ==
  /\ a.version = a.base + 1
  /\ a.version <= syncVersion
  /\ versions[a.version].device = a.device
  /\ versions[a.version].content = a.content

(* What is inductive: every answer was given from a record, and the records  *)
(* stand.                                                                   *)
AnswersInv ==
  /\ acks \subseteq idempotency
  /\ \A a \in idempotency : Stands(a)
  /\ \A a, b \in idempotency : a.device = b.device /\ a.key = b.key => a = b

(* The inductive step of Answers. *)
LEMMA AnswersStep ==
  ASSUME WriterInv, AnswersInv, [Next]_vars
  PROVE  AnswersInv'
<1>1. /\ syncVersion \in Nat
      /\ idempotency \subseteq CommitAck
  BY BoundsAssumption DEF WriterInv, TypeOK
<1>2. CASE ~CommitStep
  <2>1. UNCHANGED <<syncVersion, versions, idempotency, acks>>
    BY <1>2 DEF Next, LeaseStep, AcquireLease, TakeoverLease, RenewLease, ReleaseLease,
           ObjectStep, UploadObject, PutVerified, RegisterVerifiedObject, AbandonUpload,
           TaskStep, CompleteTask, ReopenTask, ChangeOwner, MoveTask,
           ArchiveTask, DeleteTask, ArchiveProject, UnarchiveProject, RevokeDevice, Tick,
           vars, head, commitLog
  <2> QED
    BY <2>1 DEF AnswersInv, Stands
<1>3. ASSUME NEW l, NEW k, NEW base, NEW c, ReplayCommit(leases[l].device, k, base, c)
      PROVE  AnswersInv'
  <2>1. PICK r \in RecordsFor(leases[l].device, k) :
          /\ r.base = base
          /\ r.content = c
          /\ acks' = acks \cup {Ack(leases[l].device, k, base, c, r.version)}
    BY <1>3 DEF ReplayCommit
  <2>2. r \in idempotency /\ r = Ack(leases[l].device, k, base, c, r.version)
    BY <1>1, <2>1 DEF RecordsFor, CommitAck, Ack
  <2>3. acks' \subseteq idempotency
    BY <2>1, <2>2 DEF AnswersInv
  <2>4. UNCHANGED <<syncVersion, versions, idempotency>>
    BY <1>3 DEF ReplayCommit, head
  <2> QED
    BY <2>3, <2>4 DEF AnswersInv, Stands
<1>4. ASSUME NEW l, NEW k, NEW base, NEW c, NEW t,
             Commit(l, k, base, c, t), ApplyCommit(l, k, base, c, t)
      PROVE  AnswersInv'
  <2>0. PICK n : n = Ack(leases[l].device, k, base, c, syncVersion + 1)
    OBVIOUS
  <2>1. /\ base = syncVersion
        /\ RecordsFor(leases[l].device, k) = {}
        /\ idempotency' = idempotency \cup {n}
        /\ acks' = acks \cup {n}
    BY <1>4, <2>0 DEF ApplyCommit, NextVersion
  <2>2. /\ n.device = leases[l].device
        /\ n.key = k
        /\ n.base = syncVersion
        /\ n.content = c
        /\ n.version = syncVersion + 1
    BY <2>0, <2>1 DEF Ack
  <2>3. /\ syncVersion' = syncVersion + 1
        /\ versions'[syncVersion + 1].device = leases[l].device
        /\ versions'[syncVersion + 1].content = c
        /\ \A v \in 1..syncVersion : versions'[v] = versions[v]
    BY <1>4, Publication
  <2>4. Stands(n)'
    BY <1>1, <2>2, <2>3 DEF Stands
  <2>5. ASSUME NEW a \in idempotency
        PROVE  Stands(a)'
    <3>1. Stands(a) /\ a.version \in Nat /\ a.base \in Nat
      BY <1>1 DEF AnswersInv, CommitAck
    <3>2. a.version \in 1..syncVersion
      BY <1>1, <3>1 DEF Stands
    <3> QED
      BY <1>1, <2>3, <3>1, <3>2 DEF Stands
  <2>6. \A a \in idempotency : ~(a.device = n.device /\ a.key = n.key)
    BY <2>1, <2>2 DEF RecordsFor
  <2>7. \A a, b \in idempotency' : a.device = b.device /\ a.key = b.key => a = b
    BY <2>1, <2>6 DEF AnswersInv
  <2>8. acks' \subseteq idempotency'
    BY <2>1 DEF AnswersInv
  <2>9. \A a \in idempotency' : Stands(a)'
    BY <2>1, <2>4, <2>5
  <2> QED
    BY <2>7, <2>8, <2>9 DEF AnswersInv
<1>5. CASE CommitStep
  BY <1>3, <1>4, <1>5 DEF CommitStep, Commit
<1> QED
  BY <1>2, <1>5

(* An answered commit stands: a retry of it, however late, is answered with  *)
(* the version it made, and no key ever names two.                          *)
THEOREM Answers == Spec => []AnsweredCommitsStand
<1>1. Init => AnswersInv
  BY DEF Init, AnswersInv
<1>2. WriterInv /\ AnswersInv /\ [Next]_vars => AnswersInv'
  BY AnswersStep
<1>3. AnswersInv => AnsweredCommitsStand
  BY DEF AnswersInv, Stands, AnsweredCommitsStand
<1> QED
  BY <1>1, <1>2, <1>3, WriterInvariance, PTL DEF Spec

-----------------------------------------------------------------------------
(* The server implements WorkspaceHistory.                                 *)

(* Writer, as a function of the leases. *)
WriterOf(ls) ==
  IF InForce(ls) = {} THEN NoDevice
  ELSE ls[CHOOSE l \in InForce(ls) : TRUE].device

(* With at most one lease in force, the writer is its device. *)
LEMMA WriterOfProperties ==
  ASSUME NEW ls, NEW n, InForce(ls) \subseteq {n}
  PROVE  /\ InForce(ls) = {} => WriterOf(ls) = NoDevice
         /\ n \in InForce(ls) => WriterOf(ls) = ls[n].device
<1>1. ASSUME n \in InForce(ls)
      PROVE  WriterOf(ls) = ls[n].device
  <2>1. InForce(ls) # {} /\ (CHOOSE l \in InForce(ls) : TRUE) \in InForce(ls)
    BY <1>1, Zenon
  <2>2. (CHOOSE l \in InForce(ls) : TRUE) = n
    BY <2>1, Zenon
  <2> QED
    BY <2>1, <2>2, Zenon DEF WriterOf
<1> QED
  BY <1>1 DEF WriterOf

(* A step that grants nothing keeps the writer or leaves none. *)
LEMMA WriterKeptOrGone ==
  ASSUME NEW ls \in Seq(Lease), NEW ms, NEW n,
         InForce(ls) \subseteq {n}, InForce(ms) \subseteq InForce(ls), Outgrown(ls, ms)
  PROVE  WriterOf(ms) \in {WriterOf(ls), NoDevice}
<1>1. CASE InForce(ms) = {}
  BY <1>1 DEF WriterOf
<1>2. CASE InForce(ms) # {}
  <2>1. n \in InForce(ms) /\ n \in InForce(ls)
    BY <1>2
  <2>2. WriterOf(ms) = ms[n].device /\ WriterOf(ls) = ls[n].device
    BY <2>1, WriterOfProperties
  <2>3. n \in 1..Len(ls)
    BY <2>1, LenProperties DEF InForce
  <2>4. ms[n].device = ls[n].device
    BY <2>3 DEF Outgrown
  <2> QED
    BY <2>2, <2>4
<1> QED
  BY <1>1, <1>2

(* Open, the mapping of the abstract variable of that name. *)
Open == lifecycle = "active" /\ ~projectArchived

(* A function on 1..n is a sequence of length n. *)
LEMMA FunctionIsSequence ==
  ASSUME NEW S, NEW n \in Nat, NEW f \in [1..n -> S]
  PROVE  f \in Seq(S) /\ Len(f) = n
OBVIOUS

(* A commit extends the history by its writer's version. *)
LEMMA CommitPublishes ==
  ASSUME WriterInv, [Next]_vars, NEW l, NEW k, NEW base, NEW c, NEW t,
         Commit(l, k, base, c, t), ApplyCommit(l, k, base, c, t)
  PROVE  Published' = Append(Published, [device |-> leases[l].device, content |-> c])
<1> DEFINE V == [device : Devices, content : Contents]
<1>1. PICK x : x = [device |-> leases[l].device, content |-> c]
  OBVIOUS
<1>2. PICK n : n = syncVersion
  OBVIOUS
<1>3. PICK p : p = Published
  OBVIOUS
<1>4. PICK q : q = Published'
  OBVIOUS
<1>5. /\ n \in Nat
      /\ syncVersion' = n + 1
      /\ versions'[n + 1].device = leases[l].device
      /\ versions'[n + 1].content = c
      /\ \A v \in 1..n : versions'[v] = versions[v]
  BY <1>2, Publication, BoundsAssumption DEF WriterInv, TypeOK
<1>6. \A v \in 1..n : versions[v] \in Version
  BY <1>2, ElementOfSeq DEF WriterInv, TypeOK
<1>7. leases[l].device \in Devices /\ c \in Contents
  <2>1. l \in 1..Len(leases) /\ c \in registered
    BY Publication DEF Commit
  <2>2. leases[l] \in Lease
    BY <2>1, ElementOfSeq DEF WriterInv, TypeOK
  <2>3. registered \subseteq Contents
    BY DEF WriterInv, TypeOK
  <2> QED
    BY <2>1, <2>2, <2>3 DEF Lease
<1>8. x \in V
  BY <1>1, <1>7
<1> DEFINE e(v) == [device |-> versions[v].device, content |-> versions[v].content]
           f(v) == [device |-> versions'[v].device, content |-> versions'[v].content]
<1>9. p = [v \in 1..n |-> e(v)]
  BY <1>2, <1>3 DEF Published
<1>10. q = [v \in 1..n + 1 |-> f(v)]
  BY <1>4, <1>5 DEF Published
<1>e. /\ \A v \in 1..n : e(v) \in V /\ f(v) = e(v)
      /\ f(n + 1) = x
  BY <1>1, <1>5, <1>6 DEF Version
<1> HIDE DEF e, f
<1>11. p \in [1..n -> V]
  BY <1>9, <1>e
<1>12. p \in Seq(V) /\ Len(p) = n
  BY <1>5, <1>11, FunctionIsSequence
<1>13. q[n + 1] = x /\ \A v \in 1..n : q[v] = p[v]
  BY <1>5, <1>9, <1>10, <1>e
<1>14. q \in [1..n + 1 -> V]
  <2>1. \A v \in 1..n : p[v] \in V
    BY <1>11
  <2>2. \A v \in 1..n + 1 : v \in 1..n \/ v = n + 1
    BY <1>5
  <2>3. \A v \in 1..n + 1 : f(v) \in V
    BY <1>8, <1>e, <2>1, <2>2
  <2> QED
    BY <1>10, <2>3
<1>15. q \in Seq(V) /\ Len(q) = n + 1
  <2>1. n + 1 \in Nat
    BY <1>5
  <2> HIDE DEF V
  <2> QED
    BY <1>14, <2>1, FunctionIsSequence
<1>16. /\ Append(p, x) \in Seq(V)
       /\ Len(Append(p, x)) = n + 1
       /\ Append(p, x)[n + 1] = x
       /\ \A v \in 1..n : Append(p, x)[v] = p[v]
  BY <1>8, <1>12, AppendProperties
<1>17. \A v \in 1..n + 1 : q[v] = Append(p, x)[v]
  <2>1. \A v \in 1..n + 1 : v \in 1..n \/ v = n + 1
    BY <1>5
  <2> QED
    BY <1>13, <1>16, <2>1
<1>18. q = Append(p, x)
  BY <1>15, <1>16, <1>17, SeqEqual
<1> QED
  BY <1>1, <1>3, <1>4, <1>18

(* Every step of the server is a step of the history, or none. *)
LEMMA HistoryStep ==
  ASSUME WriterInv, WriterInv', [Next]_vars
  PROVE  [Abstract!Next]_<<Published, Writer, Open>>
<1> USE DEF WriterInv
<1>0. /\ leases \in Seq(Lease)
      /\ InForce(leases) \subseteq {Len(leases)}
      /\ InForce(leases') \subseteq {Len(leases')}
      /\ Outgrown(leases, leases')
      /\ \A l \in InForce(leases) : Open
      /\ \A l \in InForce(leases') : Open'
      /\ Writer = WriterOf(leases)
      /\ Writer' = WriterOf(leases')
  BY LeasesOutgrow DEF TypeOK, OneWriter, LeaseAtHead, Writer, WriterOf, Open
<1> DEFINE Goal == [Abstract!Next]_<<Published, Writer, Open>>
<1>1. ASSUME UNCHANGED <<Published, Open>>, Writer' = NoDevice
      PROVE  Goal
  BY <1>1 DEF Abstract!Next, Abstract!Withdraw, Open
<1>2. ASSUME UNCHANGED <<Published, Open, Writer>>
      PROVE  Goal
  BY <1>2
<1>3. ASSUME UNCHANGED <<Published, Open>>, Open, NEW d \in Devices, Writer' = d
      PROVE  Goal
  BY <1>3 DEF Abstract!Next, Abstract!Grant, Open
<1>4. ASSUME UNCHANGED Published, Open' = FALSE, Writer' = NoDevice
      PROVE  Goal
  BY <1>4 DEF Abstract!Next, Abstract!Close, Open
<1>5. ASSUME UNCHANGED <<Published, Writer>>, Open = FALSE, Open' = TRUE
      PROVE  Goal
  BY <1>5 DEF Abstract!Next, Abstract!Reopen, Open
<1>6. ASSUME NEW c \in Contents, Open, Writer # NoDevice, UNCHANGED <<Writer, Open>>,
             Published' = Append(Published, [device |-> Writer, content |-> c])
      PROVE  Goal
  BY <1>6 DEF Abstract!Next, Abstract!Publish, Open
<1>7. ASSUME UNCHANGED <<Published, Open>>, InForce(leases') \subseteq InForce(leases)
      PROVE  Goal
  BY <1>0, <1>1, <1>2, <1>7, WriterKeptOrGone
<1>8. ASSUME InForce(leases') = {}
      PROVE  Writer' = NoDevice
  BY <1>0, <1>8 DEF WriterOf
<1>9. ASSUME ~Open
      PROVE  Writer = NoDevice
  BY <1>0, <1>9 DEF WriterOf
<1> SUFFICES Goal
  OBVIOUS
<1> HIDE DEF Goal
<1>10. ASSUME NEW d \in Devices, NEW t \in ArrivalTimes, NEW base, AcquireLease(d, base, t)
       PROVE  Goal
  <2> DEFINE swept == ExpireLeases(leases, t)
             new == NewLease(d, t)
  <2>1. UNCHANGED <<Published, Open>> /\ Open
    BY <1>10 DEF AcquireLease, Admitted, Writable, head, taskState, Published, Open
  <2>2. CASE leases' = swept
    <3>1. InForce(leases') \subseteq InForce(leases)
      BY <1>0, <2>2, ExpireLeasesProperties
    <3> QED
      BY <1>7, <2>1, <3>1
  <2>3. CASE leases' = Append(swept, new)
    <3>1. new \in Lease /\ new.device = d /\ ~new.revoked
      BY NewLeaseType DEF NewLease
    <3> HIDE DEF new
    <3>2. swept \in Seq(Lease)
      BY <1>0, ExpireLeasesProperties
    <3> HIDE DEF swept
    <3>3. leases'[Len(leases')] = new /\ Len(leases') \in DOMAIN leases'
      BY <2>3, <3>1, <3>2, AppendLeaseProperties, LenProperties
    <3>4. Len(leases') \in InForce(leases')
      BY <3>1, <3>3 DEF InForce
    <3>5. Writer' = d
      BY <1>0, <3>1, <3>3, <3>4, WriterOfProperties
    <3> QED
      BY <1>3, <2>1, <3>5
  <2> QED
    BY <1>10, <2>2, <2>3 DEF AcquireLease
<1>11. ASSUME NEW d \in Devices, NEW t \in ArrivalTimes, TakeoverLease(d, t)
       PROVE  Goal
  <2> DEFINE cleared == RevokeAll(ExpireLeases(leases, t))
             new == NewLease(d, t)
  <2>1. UNCHANGED <<Published, Open>> /\ Open /\ leases' = Append(cleared, new)
    BY <1>11 DEF TakeoverLease, Admitted, Writable, head, taskState, Published, Open
  <2>2. new \in Lease /\ new.device = d /\ ~new.revoked
    BY NewLeaseType DEF NewLease
  <2> HIDE DEF new
  <2>3. cleared \in Seq(Lease)
    BY <1>0, ExpireLeasesProperties, RevokeAllProperties
  <2> HIDE DEF cleared
  <2>4. leases'[Len(leases')] = new /\ Len(leases') \in DOMAIN leases'
    BY <2>1, <2>2, <2>3, AppendLeaseProperties, LenProperties
  <2>5. Len(leases') \in InForce(leases')
    BY <2>2, <2>4 DEF InForce
  <2>6. Writer' = d
    BY <1>0, <2>2, <2>4, <2>5, WriterOfProperties
  <2> QED
    BY <1>3, <2>1, <2>6
<1>12. ASSUME NEW l, NEW t \in ArrivalTimes, RenewLease(l, t) \/ ReleaseLease(l, t)
       PROVE  Goal
  <2>1. UNCHANGED <<Published, Open>>
    BY <1>12 DEF RenewLease, ReleaseLease, head, taskState, Published, Open
  <2>2. DOMAIN leases' = DOMAIN leases
    BY <1>12 DEF RenewLease, ReleaseLease
  <2>3. InForce(leases') \subseteq InForce(leases)
    BY <1>0, <2>2, LenProperties DEF InForce, Outgrown
  <2> QED
    BY <1>7, <2>1, <2>3
<1>13. ASSUME NEW l, NEW k, NEW base, NEW c, NEW t, Commit(l, k, base, c, t)
       PROVE  Goal
  <2>1. CASE ReplayCommit(leases[l].device, k, base, c)
    <3>1. UNCHANGED <<Published, Open>> /\ leases' = leases
      BY <1>13, <2>1 DEF Commit, ReplayCommit, head, taskState, Published, Open
    <3> QED
      BY <1>7, <3>1
  <2>2. CASE ApplyCommit(l, k, base, c, t)
    <3>1. /\ l \in InForce(leases)
          /\ l = Len(leases)
          /\ Published' = Append(Published, [device |-> leases[l].device, content |-> c])
      <4>1. l \in InForce(leases) /\ l = Len(leases)
        BY <1>0, <1>13, <2>2, Publication
      <4>2. Published' = Append(Published, [device |-> leases[l].device, content |-> c])
        BY <1>0, <1>13, <2>2, CommitPublishes
      <4> QED
        BY <4>1, <4>2
    <3>2. UNCHANGED Open
      BY <1>13, <2>2 DEF Commit, ApplyCommit, taskState, Open
    <3>3. Writer = leases[l].device /\ Open
      BY <1>0, <3>1, WriterOfProperties
    <3>4. Writer' = Writer
      <4>1. DOMAIN leases' = DOMAIN leases
        BY <2>2 DEF ApplyCommit, RefreshBase
      <4>2. /\ leases'[l].revoked = leases[l].revoked
            /\ leases'[l].device = leases[l].device
        <5>1. leases[l] \in Lease /\ l \in DOMAIN leases
          BY <1>0, <3>1, ElementOfSeq, LenProperties DEF InForce
        <5>2. leases'[l] = [leases[l] EXCEPT !.base = NextVersion(syncVersion)]
          BY <2>2, <5>1 DEF ApplyCommit, RefreshBase
        <5>3. leases'[l].device = leases[l].device
          BY <5>1, <5>2 DEF Lease
        <5>4. leases'[l].revoked = leases[l].revoked
          BY <5>1, <5>2 DEF Lease
        <5> QED
          BY <5>3, <5>4
      <4>3. l \in InForce(leases')
        BY <3>1, <4>1, <4>2 DEF InForce
      <4>4. l = Len(leases')
        BY <1>0, <4>3
      <4> QED
        BY <1>0, <3>3, <4>2, <4>3, <4>4, WriterOfProperties
    <3>5. leases[l].device \in Devices /\ c \in Contents
      <4>1. leases[l] \in Lease
        BY <1>0, <3>1, ElementOfSeq, LenProperties DEF InForce
      <4>2. c \in registered /\ registered \subseteq Contents
        BY <1>13 DEF Commit, TypeOK
      <4> QED
        BY <4>1, <4>2 DEF Lease
    <3> QED
      BY <1>6, <3>1, <3>2, <3>3, <3>4, <3>5, DevicesAssumption
  <2> QED
    BY <1>13, <2>1, <2>2 DEF Commit
<1>14. CASE CompleteTask \/ ArchiveTask \/ DeleteTask \/ ArchiveProject
  <2>1. UNCHANGED Published
    BY <1>14 DEF CompleteTask, ArchiveTask, DeleteTask, ArchiveProject, head, Published
  <2>2. Open' = FALSE
    BY <1>14 DEF CompleteTask, ArchiveTask, DeleteTask, ArchiveProject, Open
  <2>3. leases' = RevokeAll(leases)
    BY <1>14 DEF CompleteTask, ArchiveTask, DeleteTask, ArchiveProject
  <2>4. Writer' = NoDevice
    BY <1>0, <1>8, <2>3, RevokeAllProperties
  <2> QED
    BY <1>4, <2>1, <2>2, <2>4
<1>15. CASE ReopenTask
  <2>1. UNCHANGED Published
    BY <1>15 DEF ReopenTask, Published
  <2>2. Open = FALSE
    BY <1>15 DEF ReopenTask, Open
  <2>3. Writer = NoDevice
    BY <1>9, <2>2
  <2>4. Writer' = NoDevice
    BY <1>0, <1>8, <1>15, RevokeAllProperties DEF ReopenTask
  <2>5. Open' \in BOOLEAN
    BY DEF Open
  <2> QED
    BY <1>2, <1>5, <2>1, <2>2, <2>3, <2>4, <2>5
<1>16. ASSUME NEW u, NEW explicit, ChangeOwner(u, explicit)
       PROVE  Goal
  <2>1. UNCHANGED <<Published, Open>>
    BY <1>16 DEF ChangeOwner, head, taskState, Published, Open
  <2>2. Writer' = NoDevice
    BY <1>0, <1>8, <1>16, RevokeAllProperties DEF ChangeOwner
  <2> QED
    BY <1>1, <2>1, <2>2
<1>17. CASE UnarchiveProject
  <2>1. UNCHANGED <<Published, Writer>>
    BY <1>0, <1>17 DEF UnarchiveProject, head, access, Published
  <2>2. Open = FALSE
    BY <1>17 DEF UnarchiveProject, Open
  <2>3. Open' \in BOOLEAN
    BY DEF Open
  <2> QED
    BY <1>2, <1>5, <2>1, <2>2, <2>3
<1>18. CASE \/ ObjectStep
            \/ \E u \in Users : MoveTask(u)
            \/ \E d \in Devices : RevokeDevice(d)
            \/ Tick
            \/ UNCHANGED vars
  <2>1. /\ leases' = leases
        /\ UNCHANGED <<lifecycle, syncVersion, versions, projectArchived>>
    BY <1>18 DEF ObjectStep, UploadObject, PutVerified, RegisterVerifiedObject, AbandonUpload,
                 MoveTask, RevokeDevice, Tick, vars, head, access, taskState
  <2>2. UNCHANGED <<Published, Open>>
    BY <2>1 DEF Published, Open
  <2> QED
    BY <1>7, <2>1, <2>2
<1> QED
  BY <1>10, <1>11, <1>12, <1>13, <1>14, <1>15, <1>16, <1>17, <1>18
  DEF Next, LeaseStep, CommitStep, TaskStep

(* Whatever devices, task operations and lost answers do, the people who    *)
(* share the workspace see a WorkspaceHistory: one line of versions that     *)
(* only grows at its end, extended by one writer at a time, and by nobody    *)
(* while the workspace is closed.                                           *)
THEOREM Implementation == Spec => ImplementsHistory
<1>1. Init => Abstract!Init
  <2> SUFFICES ASSUME Init PROVE Abstract!Init
    OBVIOUS
  <2>1. InForce(leases) = {}
    BY DEF Init, InForce
  <2>2. Writer = NoDevice
    BY <2>1 DEF Writer
  <2>3. Published = <<>>
    BY DEF Init, Published
  <2> QED
    BY <2>2, <2>3 DEF Init, Abstract!Init
<1>2. WriterInv /\ WriterInv' /\ [Next]_vars => [Abstract!Next]_<<Published, Writer, Open>>
  BY HistoryStep
<1> QED
  BY <1>1, <1>2, WriterInvariance, PTL
  DEF Spec, ImplementsHistory, Abstract!Spec, Abstract!historyVars, Open
=============================================================================
