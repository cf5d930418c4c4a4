------------------------- MODULE EventFeedProofs -------------------------
(***************************************************************************)
(* Safety of the event feed, for any number of worker processes, sources,  *)
(* faults, crashes and rebuilds, and its refinement of EventDelivery.      *)
(*                                                                         *)
(* FeedIsProcessed and NotifiedOnce speak of the tables alone.  They hold  *)
(* only because of what every open transaction may still rely on: that the *)
(* event it claimed is available and claimed by nobody else (Claims), and  *)
(* that the cursor it drew is nobody else's and in no row yet (Numbers).   *)
(* The lemmas on the actions that change the queues say what becomes of    *)
(* Pending as well, which is what the refinement needs; of the browser it  *)
(* needs that what is on its way lies after its cursor, and what it was    *)
(* given does not (Following).                                             *)
(***************************************************************************)
EXTENDS EventFeed, SequenceTheorems, FiniteSetTheorems, TLAPS

-----------------------------------------------------------------------------
(* Sequences as queues.                                                    *)

(* What a sequence holds is a finite set.                                  *)
LEMMA RangeIsFinite ==
  ASSUME NEW S, NEW q \in Seq(S)
  PROVE  IsFiniteSet(ToSet(q)) /\ ToSet(q) \in SUBSET S
<1>1. Len(q) \in Nat /\ q \in [1..Len(q) -> S] /\ DOMAIN q = 1..Len(q)
  BY LenProperties
<1>2. q \in Surjection(1..Len(q), ToSet(q))
  BY <1>1 DEF Surjection, ToSet
<1>3. IsFiniteSet(1..Len(q))
  BY <1>1, FS_Interval
<1> QED
  BY <1>1, <1>2, <1>3, FS_Surjection DEF ToSet

(* Enqueued adds N and nothing else, each event once.                      *)
LEMMA EnqueuedProperties ==
  ASSUME NEW S, NEW q \in Seq(S), NEW N \in SUBSET S, IsFiniteSet(N),
         NEW r \in Enqueued(q, N)
  PROVE  /\ r \in Seq(S) /\ IsInjective(r)
         /\ ToSet(r) = ToSet(q) \cup N
<1> DEFINE T == ToSet(q) \cup N
           n == Cardinality(T)
<1>1. IsFiniteSet(T) /\ T \in SUBSET S
  BY RangeIsFinite, FS_Union
<1>2. n \in Nat
  BY <1>1, FS_CardinalityType
<1>3. r \in [1..n -> T] /\ \A i, j \in 1..n : i # j => r[i] # r[j]
  BY DEF Enqueued, SetToSeqs
<1> HIDE DEF n, T
<1>4. IsInjective(r)
  BY <1>3 DEF IsInjective
<1>5. r \in Injection(1..n, T)
  BY <1>3, <1>4 DEF Injection
<1>6. Cardinality(1..n) = n
  BY <1>2, FS_Interval
<1>7. r \in Surjection(1..n, T)
  BY <1>1, <1>5, <1>6, FS_Injection DEF n
<1>8. ToSet(r) = T
  BY <1>3, <1>7 DEF Surjection, ToSet
<1>9. r \in Seq(S)
  <2>1. r \in [1..n -> S]
    BY <1>1, <1>3
  <2> QED
    BY <2>1, <1>2, SeqDef
<1> QED
  BY <1>4, <1>8, <1>9 DEF T

(* Append and Tail, of a queue that has each event once.                   *)
LEMMA AppendSet ==
  ASSUME NEW S, NEW q \in Seq(S), NEW e \in S
  PROVE  /\ Append(q, e) \in Seq(S)
         /\ ToSet(Append(q, e)) = ToSet(q) \cup {e}
         /\ IsInjective(q) /\ e \notin ToSet(q) => IsInjective(Append(q, e))
<1> DEFINE r == Append(q, e)
           n == Len(q)
<1>1. n \in Nat /\ DOMAIN q = 1..n
  BY LenProperties
<1>2. r \in Seq(S) /\ Len(r) = n + 1 /\ r[n + 1] = e /\ \A i \in 1..n : r[i] = q[i]
  BY AppendProperties
<1>3. DOMAIN r = 1..(n + 1)
  BY <1>2, LenProperties
<1> HIDE DEF r, n
<1>4. ToSet(r) = ToSet(q) \cup {e}
  BY <1>1, <1>2, <1>3 DEF ToSet
<1>5. IsInjective(q) /\ e \notin ToSet(q) => IsInjective(r)
  BY <1>1, <1>2, <1>3 DEF ToSet, IsInjective
<1> QED
  BY <1>2, <1>4, <1>5 DEF r

LEMMA TailSet ==
  ASSUME NEW S, NEW q \in Seq(S), q # <<>>, IsInjective(q)
  PROVE  /\ Tail(q) \in Seq(S) /\ IsInjective(Tail(q))
         /\ Head(q) \in ToSet(q) /\ ToSet(Tail(q)) = ToSet(q) \ {Head(q)}
<1> DEFINE r == Tail(q)
           n == Len(q)
<1>1. n \in Nat \ {0} /\ DOMAIN q = 1..n
  BY LenProperties, EmptySeq
<1>2. r \in Seq(S) /\ Len(r) = n - 1 /\ \A i \in 1..(n - 1) : r[i] = q[i + 1]
  BY HeadTailProperties
<1>3. DOMAIN r = 1..(n - 1)
  BY <1>2, LenProperties
<1>4. Head(q) = q[1]
  OBVIOUS
<1> HIDE DEF r, n
<1>5. IsInjective(r)
  <2> SUFFICES ASSUME NEW i \in 1..(n - 1), NEW j \in 1..(n - 1), r[i] = r[j] PROVE i = j
    BY <1>3 DEF IsInjective
  <2>1. i + 1 \in 1..n /\ j + 1 \in 1..n /\ q[i + 1] = q[j + 1]
    BY <1>1, <1>2
  <2> QED
    BY <1>1, <2>1 DEF IsInjective
<1>6. ToSet(r) \subseteq ToSet(q) \ {q[1]}
  BY <1>1, <1>2, <1>3 DEF ToSet, IsInjective
<1>7. ToSet(q) \ {q[1]} \subseteq ToSet(r)
  <2> SUFFICES ASSUME NEW i \in 1..n, q[i] # q[1] PROVE q[i] \in ToSet(r)
    BY <1>1 DEF ToSet
  <2>1. i - 1 \in 1..(n - 1) /\ (i - 1) + 1 = i
    BY <1>1
  <2> QED
    BY <2>1, <1>2, <1>3 DEF ToSet
<1> QED
  BY <1>1, <1>2, <1>4, <1>5, <1>6, <1>7 DEF r, ToSet

(* Without takes e out of a queue and nothing else.                        *)
LEMMA WithoutProperties ==
  ASSUME NEW S, NEW q \in Seq(S), IsInjective(q), NEW e
  PROVE  /\ Without(q, e) \in Seq(S) /\ IsInjective(Without(q, e))
         /\ ToSet(Without(q, e)) = ToSet(q) \ {e}
<1>1. CASE e \notin ToSet(q)
  BY <1>1 DEF Without
<1>2. CASE e \in ToSet(q)
  <2> DEFINE n == Len(q)
             k == CHOOSE i \in DOMAIN q : q[i] = e
             r == Without(q, e)
             a == SubSeq(q, 1, k - 1)
             b == SubSeq(q, k + 1, n)
  <2>1. n \in Nat /\ DOMAIN q = 1..n /\ \A i \in 1..n : q[i] \in S
    BY LenProperties, ElementOfSeq
  <2>2. k \in 1..n /\ q[k] = e
    BY <1>2, <2>1 DEF ToSet
  <2>3. r = a \o b
    BY <1>2 DEF Without, RemoveAt
  <2> HIDE DEF k, n, r
  <2>4. a \in Seq(S) /\ Len(a) = k - 1 /\ \A i \in 1..(k - 1) : a[i] = q[i]
    <3>1. \A i \in 1..(k - 1) : q[i] \in S
      BY <2>1, <2>2
    <3>2. /\ a \in Seq(S)
          /\ Len(a) = IF 1 <= k - 1 THEN k - 1 - 1 + 1 ELSE 0
          /\ \A i \in 1..(k - 1 - 1 + 1) : a[i] = q[1 + i - 1]
      BY <2>1, <2>2, <3>1, SubSeqProperties
    <3> HIDE DEF a
    <3> QED
      BY <2>1, <2>2, <3>2
  <2>5. b \in Seq(S) /\ Len(b) = n - k /\ \A i \in 1..(n - k) : b[i] = q[k + i]
    <3>1. \A i \in (k + 1)..n : q[i] \in S
      BY <2>1, <2>2
    <3>2. /\ b \in Seq(S)
          /\ Len(b) = IF k + 1 <= n THEN n - (k + 1) + 1 ELSE 0
          /\ \A i \in 1..(n - (k + 1) + 1) : b[i] = q[k + 1 + i - 1]
      BY <2>1, <2>2, <3>1, SubSeqProperties
    <3> HIDE DEF b
    <3> QED
      BY <2>1, <2>2, <3>2
  <2> HIDE DEF a, b
  <2>6. /\ r \in Seq(S) /\ Len(r) = n - 1
        /\ \A i \in 1..(n - 1) : r[i] = IF i < k THEN q[i] ELSE q[i + 1]
    <3>1. /\ a \o b \in Seq(S) /\ Len(a \o b) = Len(a) + Len(b)
          /\ \A i \in 1..(Len(a) + Len(b)) :
               (a \o b)[i] = IF i <= Len(a) THEN a[i] ELSE b[i - Len(a)]
      BY <2>4, <2>5, ConcatProperties
    <3>2. r \in Seq(S) /\ Len(r) = n - 1
      BY <2>1, <2>2, <2>3, <2>4, <2>5, <3>1
    <3>3. ASSUME NEW i \in 1..(n - 1) PROVE r[i] = IF i < k THEN q[i] ELSE q[i + 1]
      <4>1. CASE i < k
        BY <2>1, <2>2, <2>3, <2>4, <2>5, <3>1, <4>1
      <4>2. CASE ~(i < k)
        <5>1. r[i] = b[i - (k - 1)]
          BY <2>1, <2>2, <2>3, <2>4, <2>5, <3>1, <4>2
        <5>2. i - (k - 1) \in 1..(n - k) /\ k + (i - (k - 1)) = i + 1
          BY <2>1, <2>2, <4>2
        <5> QED
          BY <2>5, <4>2, <5>1, <5>2
      <4> QED
        BY <4>1, <4>2
    <3> QED
      BY <3>2, <3>3
  <2>7. DOMAIN r = 1..(n - 1)
    BY <2>6, LenProperties
  <2>8. IsInjective(r)
    <3> DEFINE At(i) == IF i < k THEN i ELSE i + 1
    <3> SUFFICES ASSUME NEW i \in 1..(n - 1), NEW j \in 1..(n - 1), r[i] = r[j] PROVE i = j
      BY <2>7 DEF IsInjective
    <3>1. At(i) \in 1..n /\ At(j) \in 1..n /\ q[At(i)] = q[At(j)]
      BY <2>1, <2>2, <2>6
    <3>2. At(i) = At(j)
      <4> HIDE DEF At
      <4> QED
        BY <2>1, <3>1 DEF IsInjective
    <3> QED
      BY <2>1, <2>2, <3>2
  <2>9. ToSet(r) \subseteq ToSet(q) \ {e}
    BY <2>1, <2>2, <2>6, <2>7 DEF ToSet, IsInjective
  <2>10. ToSet(q) \ {e} \subseteq ToSet(r)
    <3> SUFFICES ASSUME NEW i \in 1..n, q[i] # e PROVE q[i] \in ToSet(r)
      BY <2>1 DEF ToSet
    <3>1. CASE i < k
      BY <2>1, <2>2, <2>6, <2>7, <3>1 DEF ToSet
    <3>2. CASE i > k
      <4>1. i - 1 \in 1..(n - 1) /\ ~(i - 1 < k) /\ (i - 1) + 1 = i
        BY <2>1, <2>2, <3>2
      <4> QED
        BY <2>6, <2>7, <4>1 DEF ToSet
    <3> QED
      BY <2>1, <2>2, <3>1, <3>2
  <2> QED
    BY <2>6, <2>8, <2>9, <2>10 DEF r
<1> QED
  BY <1>1, <1>2
-----------------------------------------------------------------------------
(* The inductive invariant.                                                *)

Phases == {"down", "idle", "dispatching", "claimed", "written", "failed", "finishing"}
Process == [phase : Phases, event : Events \cup {NoEvent}, cursor : Nat]

(* Worker w has a transaction open, and a row locked.                      *)
InTx(w) == worker[w].phase \in InTransaction

(* Types of the tables and the processes.  Finite tables are what lets a    *)
(* rebuild enqueue the announcements of all that is committed.             *)
Types ==
  /\ ready \in Seq(Events) /\ delayed \in Seq(Events)
  /\ processed \in SUBSET Events /\ IsFiniteSet(processed)
  /\ projected \in SUBSET Events
  /\ notified \in [Sources -> Nat]
  /\ lastCursor \in Nat
  /\ feed \in SUBSET [cursor : Nat, event : Events]
  /\ worker \in [Workers -> Process]

(* An outbox event is in one place: available, put off, or processed.      *)
Queues ==
  /\ IsInjective(ready) /\ IsInjective(delayed)
  /\ ToSet(ready) \cap ToSet(delayed) = {}
  /\ Pending \cap processed = {}

(* A claimed event stays available while it is claimed, and one worker has *)
(* it; a worker that failed puts off an event that exists.                 *)
Claims ==
  /\ \A w \in Workers : InTx(w) => worker[w].event \in ToSet(ready)
  /\ \A w \in Workers : worker[w].phase = "failed" => worker[w].event \in Committed
  /\ \A v, w \in Workers : InTx(v) /\ InTx(w) /\ worker[v].event = worker[w].event => v = w

(* The cursor a worker has drawn is its own, and no row has it.            *)
Numbers ==
  /\ \A f \in feed : f.cursor <= lastCursor
  /\ \A w \in Workers : worker[w].phase = "written" =>
       worker[w].cursor <= lastCursor /\ \A f \in feed : f.cursor # worker[w].cursor
  /\ \A v, w \in Workers :
       /\ worker[v].phase = "written" /\ worker[w].phase = "written"
       /\ worker[v].cursor = worker[w].cursor
       => v = w

(* The rows of the feed are the processed events, one row each.            *)
Rows ==
  /\ {f.event : f \in feed} = processed
  /\ \A f, g \in feed : f.cursor = g.cursor \/ f.event = g.event => f = g

Inv == Types /\ Queues /\ Claims /\ Numbers /\ Rows /\ NotifiedOnce

-----------------------------------------------------------------------------
(* Events and projections.                                                 *)

(* The events of the sources are different events.                         *)
LEMMA EventFacts ==
  ASSUME NEW s \in Sources, NEW t \in Sources
  PROVE  /\ Change(s) \in Events /\ Notification(s) \in Events
         /\ Change(s) # Notification(t)
         /\ Notification(s) = Notification(t) => s = t
         /\ Change(s) = Change(t) => s = t
BY DEF Change, Notification, Events

(* Projecting a finite set of changes announces a finite set.              *)
LEMMA AnnouncementsAreFinite ==
  ASSUME NEW E, IsFiniteSet(E), NEW A \in SUBSET Sources, \A s \in A : Change(s) \in E
  PROVE  IsFiniteSet({Notification(s) : s \in A})
<1> DEFINE D == {Change(s) : s \in A}
           R == {Notification(s) : s \in A}
           f == [e \in D |-> Notification(e[1])]
<1>1. IsFiniteSet(D)
  <2>1. D \in SUBSET E
    OBVIOUS
  <2> QED
    BY <2>1, FS_Subset
<1>2. \A s \in A : f[Change(s)] = Notification(s)
  BY DEF Change, Notification
<1>3. f \in [D -> R]
  BY DEF Change, Notification
<1>4. \A r \in R : \E d \in D : f[d] = r
  <2> HIDE DEF f
  <2> QED
    BY <1>2
<1>5. f \in Surjection(D, R)
  <2> HIDE DEF f, D, R
  <2> QED
    BY <1>3, <1>4 DEF Surjection
<1> QED
  BY <1>1, <1>5, FS_Surjection

(* The notifications that are due when the changes E are projected.        *)
Due(E) ==
  {Notification(s) :
     s \in {t \in Notifying : Change(t) \in E /\ Notification(t) \notin Committed}}

(* What a projection does: for the sources N that had not notified, and    *)
(* only for them, there is now one notification and its announcement.      *)
LEMMA ProjectEffect ==
  ASSUME Types, NotifiedOnce, NEW E \in SUBSET Events, IsFiniteSet(E),
         NEW q \in Seq(Events), Project(E, q)
  PROVE  \E N \in SUBSET Sources :
           /\ ready' \in Seq(Events) /\ IsInjective(ready')
           /\ ToSet(ready') = ToSet(q) \cup {Notification(s) : s \in N}
           /\ projected' = projected \cup E
           /\ \A s \in N : Notification(s) \notin Committed
           /\ notified' = [s \in Sources |-> IF s \in N THEN 1 ELSE notified[s]]
           /\ \A s \in Notifying : Change(s) \in E => notified'[s] = 1
           /\ {Notification(s) : s \in N} = Due(E)
<1> DEFINE sources == {s \in Notifying : Change(s) \in E}
           new == {s \in sources : notified[s] = 0}
           A == {Notification(s) : s \in new}
<1>1. /\ projected' = projected \cup E
      /\ notified' = [s \in Sources |->
                        IF s \in sources THEN InsertNotification(s) ELSE notified[s]]
      /\ ready' \in Enqueued(q, A)
  BY Zenon DEF Project
<1>2. new \in SUBSET Sources /\ sources \in SUBSET Sources
  BY SourcesAssumption
<1>3. IsFiniteSet(A)
  BY <1>2, AnnouncementsAreFinite
<1>4. A \in SUBSET Events
  BY <1>2, EventFacts
<1>5. ready' \in Seq(Events) /\ IsInjective(ready') /\ ToSet(ready') = ToSet(q) \cup A
  BY <1>1, <1>3, <1>4, EnqueuedProperties
<1>6. \A s \in Sources :
        /\ notified[s] = 0 \/ notified[s] = 1
        /\ notified[s] = 0 => Notification(s) \notin Committed
  BY DEF NotifiedOnce
<1>7. notified' = [s \in Sources |-> IF s \in new THEN 1 ELSE notified[s]]
  BY <1>1 DEF InsertNotification
<1>8. \A s \in Notifying : Change(s) \in E => notified'[s] = 1
  BY <1>6, <1>7, SourcesAssumption
<1>9. A = Due(E)
  <2>1. \A s \in Notifying : notified[s] = 0 <=> Notification(s) \notin Committed
    BY SourcesAssumption DEF NotifiedOnce
  <2> QED
    BY <2>1 DEF Due
<1> QED
  BY <1>1, <1>2, <1>5, <1>6, <1>7, <1>8, <1>9

-----------------------------------------------------------------------------
(* Every step preserves the invariant.                                     *)

LEMMA InitInv == Init => Inv
<1> SUFFICES ASSUME Init PROVE Inv
  OBVIOUS
<1>1. /\ ready = <<>> /\ delayed = <<>>
      /\ processed = {} /\ projected = {} /\ lastCursor = 0 /\ feed = {}
      /\ notified = [s \in Sources |-> 0]
      /\ worker = [w \in Workers |-> Down]
  BY Zenon DEF Init
<1>2. ToSet(ready) = {} /\ ToSet(delayed) = {} /\ IsInjective(ready) /\ IsInjective(delayed)
  BY <1>1 DEF ToSet, IsInjective
<1>3. Committed = {} /\ Pending = {}
  BY <1>1, <1>2 DEF Committed, Pending
<1>4. Down \in Process /\ Down.phase = "down"
  BY DEF Down, Idle, Process, Phases
<1>5. Types
  <2>1. worker \in [Workers -> Process]
    BY <1>1, <1>4
  <2>2. notified \in [Sources -> Nat]
    BY <1>1
  <2> QED
    BY <1>1, <2>1, <2>2, EmptySeq, FS_EmptySet DEF Types
<1>6. Queues
  BY <1>1, <1>2, <1>3 DEF Queues
<1>7. Claims
  BY <1>1, <1>4 DEF Claims, InTx, InTransaction
<1>8. Numbers
  BY <1>1, <1>4 DEF Numbers
<1>9. Rows
  BY <1>1 DEF Rows
<1>10. NotifiedOnce
  BY <1>1, <1>3, SourcesAssumption DEF NotifiedOnce
<1> QED
  BY <1>5, <1>6, <1>7, <1>8, <1>9, <1>10 DEF Inv

(* A step that leaves outbox and feed alone keeps all that is said of them. *)
LEMMA TablesKept ==
  ASSUME Inv, UNCHANGED <<outboxVars, lastCursor, feed>>, worker' \in [Workers -> Process]
  PROVE  /\ Types' /\ Queues' /\ Rows' /\ NotifiedOnce'
         /\ (\A f \in feed : f.cursor <= lastCursor)'
         /\ Committed' = Committed /\ ToSet(ready)' = ToSet(ready)
<1>1. /\ ready' = ready /\ delayed' = delayed /\ processed' = processed
      /\ projected' = projected /\ notified' = notified
      /\ lastCursor' = lastCursor /\ feed' = feed
  BY DEF outboxVars
<1>2. Types'
  BY <1>1 DEF Inv, Types
<1>3. Queues'
  BY <1>1 DEF Inv, Queues, Pending
<1>4. Rows'
  BY <1>1 DEF Inv, Rows
<1>5. Committed' = Committed
  BY <1>1 DEF Committed, Pending
<1>6. NotifiedOnce'
  BY <1>1, <1>5 DEF Inv, NotifiedOnce
<1>7. (\A f \in feed : f.cursor <= lastCursor)'
  BY <1>1 DEF Inv, Numbers
<1> QED
  BY <1>1, <1>2, <1>3, <1>4, <1>5, <1>6, <1>7

(* Worker w goes on without a transaction: whatever it had is let go.      *)
LEMMA HandsOff ==
  ASSUME Inv, NEW w \in Workers, UNCHANGED <<outboxVars, lastCursor, feed>>,
         worker' \in [Workers -> Process],
         \A v \in Workers \ {w} : worker'[v] = worker[v],
         worker'[w].phase \notin InTransaction,
         worker'[w].phase = "failed" => worker'[w].event \in Committed
  PROVE  Inv'
<1>1. /\ Types' /\ Queues' /\ Rows' /\ NotifiedOnce'
      /\ (\A f \in feed : f.cursor <= lastCursor)'
      /\ Committed' = Committed /\ ToSet(ready)' = ToSet(ready)
      /\ feed' = feed /\ lastCursor' = lastCursor
  BY TablesKept
<1>2. Claims'
  BY <1>1 DEF Inv, Claims, InTx
<1>3. Numbers'
  BY <1>1 DEF Inv, Numbers, InTransaction
<1> QED
  BY <1>1, <1>2, <1>3 DEF Inv

(* A process gets a new state, or a new phase.                             *)
LEMMA ProcessMoves ==
  ASSUME Types, NEW w \in Workers, NEW x \in Process, worker' = [worker EXCEPT ![w] = x]
  PROVE  /\ worker' \in [Workers -> Process] /\ worker'[w] = x
         /\ \A v \in Workers \ {w} : worker'[v] = worker[v]
BY DEF Types

LEMMA PhaseMoves ==
  ASSUME Types, NEW w \in Workers, NEW p \in Phases, worker' = [worker EXCEPT ![w].phase = p]
  PROVE  /\ worker' \in [Workers -> Process]
         /\ worker'[w].phase = p /\ worker'[w].event = worker[w].event
         /\ \A v \in Workers \ {w} : worker'[v] = worker[v]
<1>1. PICK x : x = [worker[w] EXCEPT !.phase = p]
  OBVIOUS
<1>2. worker[w] \in Process
  BY DEF Types
<1>3. x \in Process /\ x.phase = p /\ x.event = worker[w].event
  BY <1>1, <1>2 DEF Process
<1>4. worker' = [worker EXCEPT ![w] = x]
  BY <1>1
<1> QED
  BY <1>3, <1>4, ProcessMoves

(* The states without a transaction.                                       *)
LEMMA Resting ==
  /\ Idle \in Process /\ Down \in Process /\ [Idle EXCEPT !.phase = "finishing"] \in Process
  /\ Idle.phase = "idle" /\ Down.phase = "down"
  /\ [Idle EXCEPT !.phase = "finishing"].phase = "finishing"
BY DEF Idle, Down, Process, Phases

LEMMA StartWorkerInv ==
  ASSUME Inv, NEW w \in Workers, StartWorker(w) PROVE Inv'
<1>1. worker' = [worker EXCEPT ![w] = Idle] /\ UNCHANGED <<outboxVars, lastCursor, feed>>
  BY DEF StartWorker
<1> QED
  BY <1>1, ProcessMoves, Resting, HandsOff DEF Inv, InTransaction

LEMMA TakeJobInv ==
  ASSUME Inv, NEW w \in Workers, TakeJob(w) PROVE Inv'
<1>1. /\ worker' = [worker EXCEPT ![w].phase = "dispatching"]
      /\ UNCHANGED <<outboxVars, lastCursor, feed>>
  BY DEF TakeJob
<1>2. "dispatching" \in Phases
  BY DEF Phases
<1> QED
  BY <1>1, <1>2, PhaseMoves, HandsOff DEF Inv, InTransaction

LEMMA FinishInv ==
  ASSUME Inv, NEW w \in Workers, Finish(w) PROVE Inv'
<1>1. worker' = [worker EXCEPT ![w] = Idle] /\ UNCHANGED <<outboxVars, lastCursor, feed>>
  BY DEF Finish
<1> QED
  BY <1>1, ProcessMoves, Resting, HandsOff DEF Inv, InTransaction

LEMMA CrashInv ==
  ASSUME Inv, NEW w \in Workers, Crash(w) PROVE Inv'
<1>1. worker' = [worker EXCEPT ![w] = Down] /\ UNCHANGED <<outboxVars, lastCursor, feed>>
  BY DEF Crash
<1> QED
  BY <1>1, ProcessMoves, Resting, HandsOff DEF Inv, InTransaction

LEMMA RollBackInv ==
  ASSUME Inv, NEW w \in Workers, RollBack(w) PROVE Inv'
<1>1. /\ worker[w].phase \in InTransaction
      /\ worker' = [worker EXCEPT ![w].phase = "failed"]
      /\ UNCHANGED <<outboxVars, lastCursor, feed>>
  BY DEF RollBack, InTransaction
<1>2. "failed" \in Phases
  BY DEF Phases
<1>3. worker[w].event \in Committed
  BY <1>1 DEF Inv, Claims, InTx, Committed, Pending
<1> QED
  BY <1>1, <1>2, <1>3, PhaseMoves, HandsOff DEF Inv, InTransaction

(* The first event that nobody has locked: exclusive, since it was not      *)
(* locked, and available.                                                  *)
LEMMA ClaimInv ==
  ASSUME Inv, NEW w \in Workers, Claim(w) PROVE Inv'
<1>1. UNCHANGED <<outboxVars, lastCursor, feed>>
  BY DEF Claim
<1>2. CASE worker' = [worker EXCEPT ![w] = [Idle EXCEPT !.phase = "finishing"]]
  BY <1>1, <1>2, ProcessMoves, Resting, HandsOff DEF Inv, InTransaction
<1>3. ASSUME NEW i \in Claimable,
             worker' = [worker EXCEPT ![w] =
                          [phase |-> "claimed", event |-> ready[i], cursor |-> 0]]
      PROVE  Inv'
  <2>1. PICK x : x = [phase |-> "claimed", event |-> ready[i], cursor |-> 0]
    OBVIOUS
  <2>2. ready[i] \in ToSet(ready) /\ ready[i] \in Events /\ ~Locked(ready[i])
    BY RangeIsFinite DEF Claimable, ToSet, Inv, Types
  <2>3. x \in Process /\ x.phase = "claimed" /\ x.event \in ToSet(ready) /\ ~Locked(x.event)
    BY <2>1, <2>2 DEF Process, Phases
  <2>4. /\ worker' \in [Workers -> Process] /\ worker'[w] = x
        /\ \A v \in Workers \ {w} : worker'[v] = worker[v]
    BY <1>3, <2>1, <2>3, ProcessMoves DEF Inv
  <2>5. /\ Types' /\ Queues' /\ Rows' /\ NotifiedOnce'
        /\ (\A f \in feed : f.cursor <= lastCursor)'
        /\ Committed' = Committed /\ ToSet(ready)' = ToSet(ready)
        /\ feed' = feed /\ lastCursor' = lastCursor
    BY <1>1, <2>4, TablesKept
  <2>6. Claims'
    BY <2>3, <2>4, <2>5 DEF Inv, Claims, InTx, InTransaction, Locked
  <2>7. Numbers'
    BY <2>3, <2>4, <2>5 DEF Inv, Numbers
  <2> QED
    BY <2>5, <2>6, <2>7 DEF Inv
<1> QED
  BY <1>2, <1>3 DEF Claim

(* The cursor drawn is greater than every one that was drawn before.       *)
LEMMA WriteInv ==
  ASSUME Inv, NEW w \in Workers, Write(w) PROVE Inv'
<1>1. PICK n : n = lastCursor + 1
  OBVIOUS
<1>2. /\ worker[w].phase = "claimed" /\ lastCursor' = n
      /\ worker' = [worker EXCEPT ![w].phase = "written", ![w].cursor = n]
      /\ ready' = ready /\ delayed' = delayed /\ processed' = processed
      /\ projected' = projected /\ notified' = notified /\ feed' = feed
  BY <1>1 DEF Write, outboxVars
<1>3. lastCursor \in Nat /\ n \in Nat /\ worker[w] \in Process
  BY <1>1 DEF Inv, Types
<1>4. PICK x : x = [[worker[w] EXCEPT !.phase = "written"] EXCEPT !.cursor = n]
  OBVIOUS
<1>5. /\ x \in Process
      /\ x.phase = "written" /\ x.event = worker[w].event /\ x.cursor = n
  BY <1>3, <1>4 DEF Process, Phases
<1>6. worker' = [worker EXCEPT ![w] = x]
  BY <1>2, <1>3, <1>4 DEF Inv, Types
<1>7. /\ worker' \in [Workers -> Process] /\ worker'[w] = x
      /\ \A v \in Workers \ {w} : worker'[v] = worker[v]
  BY <1>5, <1>6, ProcessMoves DEF Inv
<1>8. Types'
  BY <1>2, <1>3, <1>7 DEF Inv, Types
<1>9. Queues' /\ Rows' /\ Committed' = Committed
  BY <1>2 DEF Inv, Queues, Rows, Pending, Committed
<1>10. Claims'
  BY <1>2, <1>5, <1>7, <1>9 DEF Inv, Claims, InTx, InTransaction
<1>11. Numbers'
  <2>1. feed \in SUBSET [cursor : Nat, event : Events]
    BY DEF Inv, Types
  <2>2. \A v \in Workers : worker[v].cursor \in Nat
    BY DEF Inv, Types, Process
  <2> QED
    BY <1>1, <1>2, <1>3, <1>5, <1>7, <2>1, <2>2 DEF Inv, Numbers
<1>12. NotifiedOnce'
  BY <1>2, <1>9 DEF Inv, NotifiedOnce
<1> QED
  BY <1>8, <1>9, <1>10, <1>11, <1>12 DEF Inv

(* Workers and feed as they were, while the queues grow or are rearranged. *)
LEMMA WorkersKept ==
  ASSUME Inv, UNCHANGED <<worker, feed, lastCursor, processed>>,
         ToSet(ready) \subseteq ToSet(ready'), Committed \subseteq Committed'
  PROVE  Claims' /\ Numbers' /\ Rows'
<1>1. Claims'
  BY DEF Inv, Claims, InTx
<1>2. Numbers'
  BY DEF Inv, Numbers
<1>3. Rows'
  BY DEF Inv, Rows
<1> QED
  BY <1>1, <1>2, <1>3

(* All that is committed is finite.                                        *)
LEMMA CommittedIsFinite ==
  ASSUME Types PROVE IsFiniteSet(Committed) /\ Committed \in SUBSET Events
<1>1. /\ IsFiniteSet(ToSet(ready)) /\ ToSet(ready) \in SUBSET Events
      /\ IsFiniteSet(ToSet(delayed)) /\ ToSet(delayed) \in SUBSET Events
  BY RangeIsFinite DEF Types
<1>2. IsFiniteSet(processed) /\ processed \in SUBSET Events
  BY DEF Types
<1>3. IsFiniteSet(ToSet(ready) \cup ToSet(delayed))
  BY <1>1, FS_Union
<1>4. IsFiniteSet((ToSet(ready) \cup ToSet(delayed)) \cup processed)
  BY <1>2, <1>3, FS_Union
<1> QED
  BY <1>1, <1>2, <1>4 DEF Committed, Pending

LEMMA CommitSourceInv ==
  ASSUME Inv, NEW s \in Sources, CommitSource(s)
  PROVE  Inv' /\ Pending' = Pending \cup {Change(s)}
<1> DEFINE e == Change(s)
<1>1. /\ e \notin Committed /\ ready' \in Enqueued(ready, {e})
      /\ delayed' = delayed /\ processed' = processed /\ projected' = projected
      /\ notified' = notified /\ UNCHANGED <<worker, feed, lastCursor, processed>>
  BY DEF CommitSource
<1>2. e \in Events /\ ready \in Seq(Events)
  BY EventFacts DEF Inv, Types
<1>3. {e} \in SUBSET Events /\ IsFiniteSet({e})
  BY <1>2, FS_Singleton
<1>4. /\ ready' \in Seq(Events) /\ IsInjective(ready')
      /\ ToSet(ready') = ToSet(ready) \cup {e}
  BY <1>1, <1>2, <1>3, EnqueuedProperties
<1>5. Committed' = Committed \cup {e}
  BY <1>1, <1>4 DEF Committed, Pending
<1>6. Types'
  BY <1>1, <1>4 DEF Inv, Types
<1>7. Queues'
  BY <1>1, <1>4 DEF Inv, Queues, Pending, Committed
<1>8. Claims' /\ Numbers' /\ Rows'
  BY <1>1, <1>4, <1>5, WorkersKept
<1>9. NotifiedOnce'
  <2>1. \A t \in Sources : Notification(t) \in Committed' <=> Notification(t) \in Committed
    BY <1>5, EventFacts
  <2> QED
    BY <1>1, <2>1 DEF Inv, NotifiedOnce
<1>10. Pending' = Pending \cup {e}
  BY <1>1, <1>4 DEF Pending
<1> QED
  BY <1>6, <1>7, <1>8, <1>9, <1>10 DEF Inv

LEMMA ElapseInv ==
  ASSUME Inv, Elapse PROVE Inv' /\ Pending' = Pending
<1>1. PICK e : e = Head(delayed)
  OBVIOUS
<1>2. /\ delayed # <<>> /\ ready' = Append(ready, e) /\ delayed' = Tail(delayed)
      /\ processed' = processed /\ projected' = projected
      /\ notified' = notified /\ UNCHANGED <<worker, feed, lastCursor, processed>>
  BY <1>1 DEF Elapse
<1>3. ready \in Seq(Events) /\ delayed \in Seq(Events) /\ IsInjective(ready) /\ IsInjective(delayed)
  BY DEF Inv, Types, Queues
<1>4. /\ delayed' \in Seq(Events) /\ IsInjective(delayed')
      /\ e \in ToSet(delayed) /\ ToSet(delayed') = ToSet(delayed) \ {e}
  BY <1>1, <1>2, <1>3, TailSet
<1>5. e \in Events /\ e \notin ToSet(ready)
  BY <1>3, <1>4, RangeIsFinite DEF Inv, Queues
<1>6. /\ ready' \in Seq(Events) /\ IsInjective(ready')
      /\ ToSet(ready') = ToSet(ready) \cup {e}
  BY <1>2, <1>3, <1>5, AppendSet
<1>7. Committed' = Committed
  BY <1>2, <1>4, <1>6 DEF Committed, Pending
<1>8. Types'
  BY <1>2, <1>4, <1>6 DEF Inv, Types
<1>9. Queues'
  BY <1>2, <1>4, <1>6 DEF Inv, Queues, Pending
<1>10. Claims' /\ Numbers' /\ Rows'
  BY <1>2, <1>6, <1>7, WorkersKept
<1>11. NotifiedOnce'
  BY <1>2, <1>7 DEF Inv, NotifiedOnce
<1>12. Pending' = Pending
  BY <1>4, <1>6 DEF Pending
<1> QED
  BY <1>8, <1>9, <1>10, <1>11, <1>12 DEF Inv

LEMMA RebuildInv ==
  ASSUME Inv, Rebuild PROVE Inv' /\ Pending' = Pending \cup Due(Committed)
<1> DEFINE changes == {e \in Committed : e[2] = "change"}
<1>1. /\ Project(changes, ready)
      /\ delayed' = delayed /\ processed' = processed
      /\ UNCHANGED <<worker, feed, lastCursor, processed>>
  BY Zenon DEF Rebuild
<1>2. changes \in SUBSET Events /\ IsFiniteSet(changes)
  <2>1. changes \in SUBSET Committed
    OBVIOUS
  <2> QED
    BY <2>1, CommittedIsFinite, FS_Subset DEF Inv
<1> HIDE DEF changes
<1>3. PICK N \in SUBSET Sources :
           /\ ready' \in Seq(Events) /\ IsInjective(ready')
           /\ ToSet(ready') = ToSet(ready) \cup {Notification(s) : s \in N}
           /\ projected' = projected \cup changes
           /\ \A s \in N : Notification(s) \notin Committed
           /\ notified' = [s \in Sources |-> IF s \in N THEN 1 ELSE notified[s]]
           /\ \A s \in Notifying : Change(s) \in changes => notified'[s] = 1
           /\ {Notification(s) : s \in N} = Due(changes)
  BY <1>1, <1>2, ProjectEffect DEF Inv, Types
<1> DEFINE A == {Notification(s) : s \in N}
<1>4. A \cap Committed = {}
  BY <1>3
<1>5. ToSet(ready') = ToSet(ready) \cup A
  BY <1>3
<1>6. \A s \in Sources : Notification(s) \in A <=> s \in N
  BY EventFacts
<1>7. \A s \in Sources : Change(s) \notin A
  BY EventFacts
<1>13. A = Due(Committed)
  <2>1. \A s \in Notifying : Change(s) \in changes <=> Change(s) \in Committed
    BY DEF changes, Change
  <2>2. Due(changes) = Due(Committed)
    BY <2>1 DEF Due
  <2> QED
    BY <1>3, <2>2
<1> HIDE DEF A
<1>8. Committed' = Committed \cup A
  BY <1>1, <1>5 DEF Committed, Pending
<1>9. Types'
  BY <1>1, <1>2, <1>3 DEF Inv, Types
<1>10. Queues'
  BY <1>1, <1>3, <1>4, <1>5 DEF Inv, Queues, Pending, Committed
<1>11. Claims' /\ Numbers' /\ Rows'
  BY <1>1, <1>5, <1>8, WorkersKept
<1>12. NotifiedOnce'
  BY <1>1, <1>3, <1>6, <1>8, SourcesAssumption DEF Inv, NotifiedOnce
<1>14. Pending' = Pending \cup Due(Committed)
  BY <1>1, <1>5, <1>13 DEF Pending
<1> QED
  BY <1>9, <1>10, <1>11, <1>12, <1>14 DEF Inv

(* The commit of a dispatch moves the event it claimed from the queue to    *)
(* the feed, under the cursor it has drawn.                                *)
LEMMA SettleInv ==
  ASSUME Inv, NEW w \in Workers, Settle(w)
  PROVE  /\ Inv'
         /\ \E e \in Pending :
              /\ Pending' = (Pending \ {e}) \cup Due({e})
              /\ \E f \in feed' : /\ f.event = e /\ feed' = feed \cup {f}
                                 /\ \A g \in feed : g.cursor # f.cursor
<1>1. PICK e, c : e = worker[w].event /\ c = worker[w].cursor
  OBVIOUS
<1>2. PICK f : f = [cursor |-> c, event |-> e]
  OBVIOUS
<1> DEFINE q == Without(ready, e)
           E == {e} \ projected
<1>3. /\ worker[w].phase = "written" /\ Project(E, q)
      /\ processed' = processed \cup {e} /\ feed' = feed \cup {f}
      /\ worker' = [worker EXCEPT ![w] = [Idle EXCEPT !.phase = "finishing"]]
      /\ delayed' = delayed /\ lastCursor' = lastCursor
  BY <1>1, <1>2, Zenon DEF Settle
<1>4. /\ ready \in Seq(Events) /\ IsInjective(ready) /\ e \in ToSet(ready)
      /\ InTx(w) /\ e \notin processed /\ e \notin ToSet(delayed)
  BY <1>1, <1>3 DEF Inv, Types, Queues, Claims, InTx, InTransaction, Pending
<1>5. /\ e \in Events /\ c \in Nat /\ c <= lastCursor /\ \A g \in feed : g.cursor # c
  BY <1>1, <1>3, <1>4, RangeIsFinite DEF Inv, Types, Numbers, Process
<1>6. q \in Seq(Events) /\ IsInjective(q) /\ ToSet(q) = ToSet(ready) \ {e}
  BY <1>4, WithoutProperties
<1>7. E \in SUBSET Events /\ IsFiniteSet(E)
  <2>1. IsFiniteSet({e}) /\ E \in SUBSET {e}
    BY FS_Singleton
  <2> QED
    BY <1>5, <2>1, FS_Subset
<1> HIDE DEF q, E
<1>8. PICK N \in SUBSET Sources :
           /\ ready' \in Seq(Events) /\ IsInjective(ready')
           /\ ToSet(ready') = ToSet(q) \cup {Notification(s) : s \in N}
           /\ projected' = projected \cup E
           /\ \A s \in N : Notification(s) \notin Committed
           /\ notified' = [s \in Sources |-> IF s \in N THEN 1 ELSE notified[s]]
           /\ \A s \in Notifying : Change(s) \in E => notified'[s] = 1
           /\ {Notification(s) : s \in N} = Due(E)
  BY <1>3, <1>6, <1>7, ProjectEffect DEF Inv
<1> DEFINE A == {Notification(s) : s \in N}
<1>9. A \cap Committed = {} /\ ToSet(ready') = (ToSet(ready) \ {e}) \cup A
  BY <1>6, <1>8
<1>10. \A s \in Sources : Notification(s) \in A <=> s \in N
  BY EventFacts
<1>20. A = Due({e})
  <2>1. ASSUME NEW s \in Notifying, Change(s) = e, Notification(s) \notin Committed
        PROVE  Change(s) \in E
    <3>1. Change(s) \notin projected
      BY <2>1, SourcesAssumption DEF Inv, NotifiedOnce
    <3> QED
      BY <2>1, <3>1 DEF E
  <2>2. Due(E) = Due({e})
    BY <2>1 DEF E, Due
  <2> QED
    BY <1>8, <2>2
<1> HIDE DEF A
<1>11. Committed' = Committed \cup A
  BY <1>3, <1>4, <1>9 DEF Committed, Pending
<1>12. /\ worker' \in [Workers -> Process] /\ worker'[w].phase = "finishing"
       /\ \A v \in Workers \ {w} : worker'[v] = worker[v]
  BY <1>3, ProcessMoves, Resting DEF Inv
<1>13. f \in [cursor : Nat, event : Events] /\ f.cursor = c /\ f.event = e
  BY <1>2, <1>5
<1>14. Types'
  <2>1. processed' \in SUBSET Events /\ IsFiniteSet(processed')
    BY <1>3, <1>5, FS_AddElement DEF Inv, Types
  <2>2. feed' \in SUBSET [cursor : Nat, event : Events]
    BY <1>3, <1>13 DEF Inv, Types
  <2> QED
    BY <1>3, <1>7, <1>8, <1>12, <2>1, <2>2 DEF Inv, Types
<1>15. Queues'
  BY <1>3, <1>4, <1>8, <1>9 DEF Inv, Queues, Pending, Committed
<1>16. Claims'
  <2>1. ASSUME NEW v \in Workers, InTx(v)' PROVE v # w /\ InTx(v) /\ worker'[v] = worker[v]
    BY <1>12, <2>1 DEF InTx, InTransaction
  <2>2. ASSUME NEW v \in Workers, InTx(v)' PROVE worker[v].event \in ToSet(ready')
    BY <1>1, <1>4, <1>9, <2>1, <2>2 DEF Inv, Claims
  <2>3. ASSUME NEW v \in Workers, worker'[v].phase = "failed"
        PROVE  worker'[v].event \in Committed'
    BY <1>11, <1>12, <2>3 DEF Inv, Claims
  <2> QED
    BY <2>1, <2>2, <2>3 DEF Inv, Claims
<1>17. Numbers'
  <2>1. \A g \in feed' : g.cursor <= lastCursor'
    BY <1>3, <1>5, <1>13 DEF Inv, Numbers
  <2>2. ASSUME NEW v \in Workers, worker'[v].phase = "written"
        PROVE  v # w /\ worker'[v] = worker[v]
    BY <1>12, <2>2
  <2>3. ASSUME NEW v \in Workers, worker'[v].phase = "written"
        PROVE  /\ worker'[v].cursor <= lastCursor'
               /\ \A g \in feed' : g.cursor # worker'[v].cursor
    BY <1>1, <1>3, <1>13, <2>2, <2>3 DEF Inv, Numbers
  <2> QED
    BY <2>1, <2>2, <2>3 DEF Inv, Numbers
<1>18. Rows'
  <2>1. {g.event : g \in feed'} = processed'
    BY <1>3, <1>13 DEF Inv, Rows
  <2>2. \A g \in feed : g.event # e
    BY <1>4 DEF Inv, Rows
  <2> QED
    BY <1>3, <1>5, <1>13, <2>1, <2>2 DEF Inv, Rows
<1>19. NotifiedOnce'
  <2>1. ASSUME NEW s \in Sources
        PROVE  notified'[s] = IF Notification(s) \in Committed' THEN 1 ELSE 0
    BY <1>8, <1>10, <1>11 DEF Inv, NotifiedOnce
  <2>2. ASSUME NEW s \in Notifying, Change(s) \in projected' \cup processed'
        PROVE  notified'[s] = 1
    <3>1. Change(s) \in projected \cup processed \/ Change(s) \in E
      BY <1>3, <1>8, <2>2 DEF E
    <3> QED
      BY <1>8, <3>1, SourcesAssumption DEF Inv, NotifiedOnce
  <2> QED
    BY <2>1, <2>2 DEF NotifiedOnce
<1>21. Pending' = (Pending \ {e}) \cup Due({e})
  BY <1>3, <1>4, <1>9, <1>20 DEF Pending
<1>22. e \in Pending /\ f \in feed' /\ f.event = e /\ \A g \in feed : g.cursor # f.cursor
  BY <1>3, <1>4, <1>5, <1>13 DEF Pending
<1>23. Inv'
  BY <1>14, <1>15, <1>16, <1>17, <1>18, <1>19 DEF Inv
<1> QED
  BY <1>3, <1>21, <1>22, <1>23

(* A failed worker may find its event processed by another in the meantime *)
(* (it is left alone), available, or already put off.                      *)
LEMMA PostponeInv ==
  ASSUME Inv, NEW w \in Workers, Postpone(w) PROVE Inv' /\ Pending' = Pending
<1>1. PICK e : e = worker[w].event
  OBVIOUS
<1>2. /\ worker[w].phase = "failed" /\ ~Locked(e)
      /\ ready' = Without(ready, e)
      /\ delayed' = IF e \in processed THEN delayed ELSE Append(Without(delayed, e), e)
      /\ worker' = [worker EXCEPT ![w] = [Idle EXCEPT !.phase = "finishing"]]
      /\ processed' = processed /\ projected' = projected /\ notified' = notified
      /\ lastCursor' = lastCursor /\ feed' = feed
  BY <1>1 DEF Postpone
<1>3. /\ ready \in Seq(Events) /\ IsInjective(ready)
      /\ delayed \in Seq(Events) /\ IsInjective(delayed)
      /\ ToSet(ready) \cap ToSet(delayed) = {} /\ Pending \cap processed = {}
  BY DEF Inv, Types, Queues
<1>4. e \in Committed /\ e \in Events
  BY <1>1, <1>2, CommittedIsFinite DEF Inv, Claims
<1>5. /\ ready' \in Seq(Events) /\ IsInjective(ready')
      /\ ToSet(ready') = ToSet(ready) \ {e}
  BY <1>2, <1>3, WithoutProperties
<1>6. /\ delayed' \in Seq(Events) /\ IsInjective(delayed')
      /\ ToSet(delayed') = IF e \in processed THEN ToSet(delayed) ELSE ToSet(delayed) \cup {e}
  <2>1. CASE e \in processed
    BY <1>2, <1>3, <2>1
  <2>2. CASE e \notin processed
    <3> DEFINE d == Without(delayed, e)
    <3>1. d \in Seq(Events) /\ IsInjective(d) /\ ToSet(d) = ToSet(delayed) \ {e}
      BY <1>3, WithoutProperties
    <3>2. delayed' = Append(d, e)
      BY <1>2, <2>2
    <3> HIDE DEF d
    <3>3. /\ Append(d, e) \in Seq(Events) /\ ToSet(Append(d, e)) = ToSet(d) \cup {e}
          /\ IsInjective(Append(d, e))
      BY <1>4, <3>1, AppendSet
    <3> QED
      BY <2>2, <3>1, <3>2, <3>3
  <2> QED
    BY <2>1, <2>2
<1>7. Committed' = Committed
  BY <1>2, <1>4, <1>5, <1>6 DEF Committed, Pending
<1>8. /\ worker' \in [Workers -> Process] /\ worker'[w].phase = "finishing"
      /\ \A v \in Workers \ {w} : worker'[v] = worker[v]
  BY <1>2, ProcessMoves, Resting DEF Inv
<1>9. Types'
  BY <1>2, <1>5, <1>6, <1>8 DEF Inv, Types
<1>10. Queues'
  <2>1. e \in processed => e \notin ToSet(ready) /\ e \notin ToSet(delayed)
    BY <1>3 DEF Pending
  <2> QED
    BY <1>2, <1>3, <1>5, <1>6, <2>1 DEF Queues, Pending
<1>11. Claims'
  <2>1. ASSUME NEW v \in Workers, InTx(v)' PROVE InTx(v) /\ worker'[v] = worker[v]
    BY <1>8, <2>1 DEF InTx, InTransaction
  <2>2. ASSUME NEW v \in Workers, InTx(v)' PROVE worker[v].event \in ToSet(ready')
    <3>1. worker[v].event # e
      BY <1>2, <2>1, <2>2 DEF Locked, InTx
    <3> QED
      BY <1>5, <2>1, <2>2, <3>1 DEF Inv, Claims
  <2>3. ASSUME NEW v \in Workers, worker'[v].phase = "failed"
        PROVE  worker'[v].event \in Committed'
    BY <1>7, <1>8, <2>3 DEF Inv, Claims
  <2> QED
    BY <2>1, <2>2, <2>3 DEF Inv, Claims
<1>12. Numbers'
  BY <1>2, <1>8 DEF Inv, Numbers
<1>13. Rows'
  BY <1>2 DEF Inv, Rows
<1>14. NotifiedOnce'
  BY <1>2, <1>7 DEF Inv, NotifiedOnce
<1>15. Pending' = Pending
  BY <1>3, <1>4, <1>5, <1>6 DEF Committed, Pending
<1> QED
  BY <1>9, <1>10, <1>11, <1>12, <1>13, <1>14, <1>15 DEF Inv

(* The browser reads only.                                                 *)
LEMMA ReaderInv ==
  ASSUME Inv, UNCHANGED <<outboxVars, lastCursor, feed, worker>> PROVE Inv'
<1>1. worker' = worker /\ worker \in [Workers -> Process]
  BY DEF Inv, Types
<1>2. /\ Types' /\ Queues' /\ Rows' /\ NotifiedOnce'
      /\ (\A f \in feed : f.cursor <= lastCursor)'
      /\ Committed' = Committed /\ ToSet(ready)' = ToSet(ready)
  BY <1>1, TablesKept
<1>3. Claims' /\ Numbers'
  BY <1>1, <1>2, WorkersKept DEF outboxVars
<1> QED
  BY <1>2, <1>3 DEF Inv

LEMMA Step == Inv /\ [Next]_vars => Inv'
<1> SUFFICES ASSUME Inv, [Next]_vars PROVE Inv'
  OBVIOUS
<1>1. ASSUME NEW s \in Sources, CommitSource(s) PROVE Inv'
  BY <1>1, CommitSourceInv
<1>2. CASE Elapse
  BY <1>2, ElapseInv
<1>3. CASE Rebuild
  BY <1>3, RebuildInv
<1>4. ASSUME NEW w \in Workers, StartWorker(w) \/ WorkerStep(w) \/ Crash(w) PROVE Inv'
  BY <1>4, StartWorkerInv, TakeJobInv, ClaimInv, WriteInv, SettleInv, RollBackInv,
     PostponeInv, FinishInv, CrashInv DEF WorkerStep
<1>5. CASE ReaderStep
  <2>1. UNCHANGED <<outboxVars, lastCursor, feed, worker>>
    BY <1>5 DEF ReaderStep, Open, ConnectAfter, Refuse, Renew, Poll, Deliver, Close, Refetch
  <2> QED
    BY <2>1, ReaderInv
<1>6. CASE UNCHANGED vars
  BY <1>6, ReaderInv DEF vars
<1> QED
  BY <1>1, <1>2, <1>3, <1>4, <1>5, <1>6 DEF Next

-----------------------------------------------------------------------------
(* The theorems.                                                           *)

(* The invariant holds of every state: OutboxRepository.dispatchNext,      *)
(* rebuildProject and the writers of events keep it together.              *)
THEOREM Invariance == Spec => []Inv
BY InitInv, Step, PTL DEF Spec

(* In particular no event is in both queues.                               *)
LEMMA InvImpliesFeed == Inv => FeedIsProcessed
<1> SUFFICES ASSUME Inv PROVE FeedIsProcessed
  OBVIOUS
<1>1. /\ ready \in Seq(Events) /\ IsInjective(ready)
      /\ delayed \in Seq(Events) /\ IsInjective(delayed)
      /\ ToSet(ready) \cap ToSet(delayed) = {}
  BY DEF Inv, Types, Queues
<1>2. IsInjective(ready \o delayed)
  <2> DEFINE r == ready \o delayed
             m == Len(ready)
             n == Len(delayed)
  <2>1. m \in Nat /\ DOMAIN ready = 1..m /\ n \in Nat /\ DOMAIN delayed = 1..n
    BY <1>1, LenProperties
  <2>2. /\ r \in Seq(Events) /\ Len(r) = m + n
        /\ \A i \in 1..(m + n) : r[i] = IF i <= m THEN ready[i] ELSE delayed[i - m]
    BY <1>1, ConcatProperties
  <2>3. DOMAIN r = 1..(m + n)
    BY <2>2, LenProperties
  <2> HIDE DEF r, m, n
  <2>4. ASSUME NEW i \in 1..(m + n), i > m
        PROVE  i - m \in 1..n /\ r[i] = delayed[i - m] /\ r[i] \in ToSet(delayed)
    <3>1. i - m \in 1..n /\ r[i] = delayed[i - m]
      BY <2>1, <2>2, <2>4
    <3> QED
      BY <2>1, <3>1 DEF ToSet
  <2>5. ASSUME NEW i \in 1..(m + n), i <= m
        PROVE  i \in 1..m /\ r[i] = ready[i] /\ r[i] \in ToSet(ready)
    BY <2>1, <2>2, <2>5 DEF ToSet
  <2> SUFFICES ASSUME NEW i \in 1..(m + n), NEW j \in 1..(m + n), r[i] = r[j] PROVE i = j
    BY <2>3 DEF IsInjective, r
  <2>6. CASE i <= m /\ j <= m
    <3>1. i \in 1..m /\ j \in 1..m /\ ready[i] = ready[j]
      BY <2>5, <2>6
    <3> QED
      BY <1>1, <2>1, <3>1 DEF IsInjective
  <2>7. CASE i > m /\ j > m
    <3>1. PICK k, l : k = i - m /\ l = j - m
      OBVIOUS
    <3>2. k \in 1..n /\ l \in 1..n /\ delayed[k] = delayed[l]
      BY <2>4, <2>7, <3>1
    <3>3. k = l
      BY <1>1, <2>1, <3>2 DEF IsInjective
    <3> QED
      BY <2>1, <3>1, <3>3
  <2>8. CASE (i <= m /\ j > m) \/ (i > m /\ j <= m)
    BY <1>1, <2>4, <2>5, <2>8
  <2>9. (i <= m \/ i > m) /\ (j <= m \/ j > m)
    <3>1. m \in Nat /\ n \in Nat /\ i \in Int /\ j \in Int
      BY <2>1
    <3> QED
      BY <3>1
  <2> QED
    BY <2>6, <2>7, <2>8, <2>9
<1> QED
  BY <1>2 DEF Inv, Queues, Rows, FeedIsProcessed

(* The feed has each event that dispatchNext has processed once, under a   *)
(* cursor of its own, and no event is lost from the outbox or twice in it, *)
(* whatever workers race, fail and die.                                    *)
THEOREM FeedFollowsOutbox == Spec => []FeedIsProcessed
BY Invariance, InvImpliesFeed, PTL

(* However often projectTaskOutboxEvent and rebuildProject project a       *)
(* source, it notifies at most once, exactly if the notification's own     *)
(* event was committed, and always once it was projected.                  *)
THEOREM AtMostOneNotification == Spec => []NotifiedOnce
<1>1. Inv => NotifiedOnce
  BY DEF Inv
<1> QED
  BY <1>1, Invariance, PTL

-----------------------------------------------------------------------------
(* The reader, and the refinement of EventDelivery.                        *)

(* The rows of batch b, in ascending order and all after cursor c.         *)
Ascends(b, c) ==
  /\ \A i \in DOMAIN b : b[i].cursor > c /\ b[i].event[1] \in Visible
  /\ \A i, j \in DOMAIN b : i < j => b[i].cursor < b[j].cursor

(* What is on its way to the reader lies after its cursor, and what it was *)
(* given before does not.                                                  *)
Following ==
  /\ stream \in [state : ReadyStates, cursor : Nat, batch : Seq(feed)]
  /\ Ascends(stream.batch, stream.cursor)
  /\ \A e \in delivered : \E f \in feed : f.event = e /\ f.cursor <= stream.cursor

(* The feed is finite: it has one row for each processed event.            *)
LEMMA FeedIsFinite == Inv => IsFiniteSet(feed)
<1> SUFFICES ASSUME Inv PROVE IsFiniteSet(feed)
  OBVIOUS
<1> DEFINE row == [e \in processed |-> CHOOSE f \in feed : f.event = e]
<1>1. {f.event : f \in feed} = processed /\ \A f, g \in feed : f.event = g.event => f = g
  BY DEF Inv, Rows
<1>2. \A e \in processed : row[e] \in feed /\ row[e].event = e
  BY <1>1
<1>3. \A f \in feed : f.event \in processed
  BY <1>1
<1>4. row \in [processed -> feed]
  BY <1>2
<1> HIDE DEF row
<1>5. \A f \in feed : \E e \in processed : row[e] = f
  BY <1>1, <1>2, <1>3
<1>6. row \in Surjection(processed, feed)
  BY <1>4, <1>5 DEF Surjection
<1>7. IsFiniteSet(processed)
  BY DEF Inv, Types
<1> QED
  BY <1>6, <1>7, FS_Surjection

(* A read returns rows of the feed after the cursor, in ascending order.   *)
LEMMA ReadProperties ==
  ASSUME Inv, NEW c \in Nat, NEW b \in ReadAuthorized(c)
  PROVE  b \in Seq(feed) /\ Ascends(b, c)
<1> DEFINE rows == {f \in feed : f.cursor > c /\ f.event[1] \in Visible}
           n == Cardinality(rows)
<1>1. PICK q \in SetToSeqs(rows) :
        /\ \A i, j \in DOMAIN q : i < j => q[i].cursor < q[j].cursor
        /\ b = SubSeq(q, 1, IF Len(q) < BatchLimit THEN Len(q) ELSE BatchLimit)
  BY Zenon DEF ReadAuthorized
<1>2. n \in Nat
  <2>1. rows \in SUBSET feed
    OBVIOUS
  <2> QED
    BY <2>1, FeedIsFinite, FS_Subset, FS_CardinalityType
<1>3. q \in [1..n -> rows]
  BY <1>1 DEF SetToSeqs
<1>4. \A f \in rows : f \in feed /\ f.cursor > c /\ f.event[1] \in Visible
  OBVIOUS
<1> HIDE DEF rows, n
<1>5. q \in Seq(rows) /\ Len(q) = n /\ DOMAIN q = 1..n
  BY <1>2, <1>3, SeqDef, LenProperties
<1>6. PICK m \in 0..n : b = SubSeq(q, 1, m)
  BY <1>1, <1>2, <1>5, BoundsAssumption
<1>7. \A i \in 1..m : q[i] \in feed
  BY <1>2, <1>3, <1>4
<1>8. b \in Seq(feed) /\ Len(b) = m /\ \A i \in 1..m : b[i] = q[i]
  <2>1. /\ b \in Seq(feed) /\ Len(b) = (IF 1 <= m THEN m - 1 + 1 ELSE 0)
        /\ \A i \in 1..(m - 1 + 1) : b[i] = q[1 + i - 1]
    BY <1>2, <1>6, <1>7, SubSeqProperties
  <2> QED
    BY <1>2, <2>1
<1>9. DOMAIN b = 1..m
  BY <1>8, LenProperties
<1>10. \A i \in 1..m : i \in 1..n /\ b[i] = q[i] /\ b[i] \in rows
  BY <1>2, <1>3, <1>8
<1>11. Ascends(b, c)
  BY <1>1, <1>4, <1>5, <1>9, <1>10 DEF Ascends
<1> QED
  BY <1>8, <1>11

(* A longer feed and the same stream.                                      *)
LEMMA FollowingKept ==
  ASSUME Following, feed \subseteq feed', UNCHANGED <<stream, delivered>>
  PROVE  Following'
<1>1. Seq(feed) \subseteq Seq(feed')
  BY SeqDef
<1> QED
  BY <1>1 DEF Following, Ascends

LEMMA OpenFollows ==
  ASSUME Inv, Following, Open \/ Poll PROVE Following'
<1>1. PICK rows \in ReadAuthorized(stream.cursor) :
        /\ \/ stream' = [stream EXCEPT !.state = "open", !.batch = rows]
           \/ stream' = [stream EXCEPT !.batch = rows]
        /\ feed' = feed /\ delivered' = delivered
  BY DEF Open, ConnectAfter, Poll
<1>2. stream \in [state : ReadyStates, cursor : Nat, batch : Seq(feed)]
  BY DEF Following
<1>3. rows \in Seq(feed) /\ Ascends(rows, stream.cursor)
  BY <1>2, ReadProperties
<1>4. /\ stream' \in [state : ReadyStates, cursor : Nat, batch : Seq(feed)]
      /\ stream'.batch = rows /\ stream'.cursor = stream.cursor
  BY <1>1, <1>2, <1>3 DEF ReadyStates
<1> QED
  BY <1>1, <1>3, <1>4 DEF Following, Ascends

(* The event that arrives is in the feed, after the cursor, and was not     *)
(* given before: what was has no later row.                                *)
LEMMA DeliverFollows ==
  ASSUME Inv, Following, Deliver
  PROVE  /\ Following'
         /\ \E f \in feed : /\ f.event[1] \in Visible /\ f.cursor > stream.cursor
                            /\ f.event \notin delivered
                            /\ stream'.cursor = f.cursor
                            /\ delivered' = delivered \cup {f.event}
<1> DEFINE b == stream.batch
           r == Tail(b)
<1>1. PICK f : f = Head(b)
  OBVIOUS
<1>2. /\ b # <<>>
      /\ stream' = [stream EXCEPT !.cursor = f.cursor, !.batch = r]
      /\ delivered' = delivered \cup {f.event} /\ feed' = feed
  BY <1>1 DEF Deliver
<1>3. /\ stream \in [state : ReadyStates, cursor : Nat, batch : Seq(feed)]
      /\ b \in Seq(feed) /\ Ascends(b, stream.cursor)
  BY DEF Following
<1>4. /\ r \in Seq(feed) /\ Len(r) = Len(b) - 1 /\ Len(b) \in Nat \ {0}
      /\ \A i \in 1..Len(r) : r[i] = b[i + 1]
  BY <1>2, <1>3, HeadTailProperties, LenProperties, EmptySeq
<1>5. DOMAIN b = 1..Len(b) /\ DOMAIN r = 1..Len(r)
  BY <1>3, <1>4, LenProperties
<1>6. f = b[1] /\ 1 \in DOMAIN b
  BY <1>1, <1>4, <1>5
<1>7. f \in feed /\ f.cursor > stream.cursor /\ f.event[1] \in Visible
  BY <1>3, <1>5, <1>6 DEF Ascends
<1>8. f.cursor \in Nat
  BY <1>7 DEF Inv, Types
<1> HIDE DEF b, r
<1>9. Ascends(r, f.cursor)
  <2>1. \A i \in DOMAIN r : i \in Int /\ i + 1 \in DOMAIN b /\ r[i] = b[i + 1] /\ 1 < i + 1
    BY <1>4, <1>5
  <2>2. \A i, j \in DOMAIN r : i < j => i + 1 < j + 1
    BY <2>1
  <2>3. /\ \A i \in DOMAIN b : b[i].cursor > stream.cursor /\ b[i].event[1] \in Visible
        /\ \A i, j \in DOMAIN b : i < j => b[i].cursor < b[j].cursor
    BY <1>3 DEF Ascends
  <2>4. \A i \in DOMAIN b : b[i].cursor \in Nat
    <3>1. \A i \in DOMAIN b : b[i] \in feed
      BY <1>3, <1>5
    <3> QED
      BY <3>1 DEF Inv, Types
  <2>5. ASSUME NEW i \in DOMAIN r PROVE r[i].cursor > f.cursor /\ r[i].event[1] \in Visible
    BY <1>6, <1>8, <2>1, <2>3, <2>4
  <2>6. ASSUME NEW i \in DOMAIN r, NEW j \in DOMAIN r, i < j PROVE r[i].cursor < r[j].cursor
    BY <2>1, <2>2, <2>3, <2>6
  <2> QED
    BY <2>5, <2>6 DEF Ascends
<1>10. /\ stream' \in [state : ReadyStates, cursor : Nat, batch : Seq(feed)]
       /\ stream'.batch = r /\ stream'.cursor = f.cursor
  BY <1>2, <1>3, <1>4, <1>8
<1>11. \A e \in delivered : \E g \in feed : g.event = e /\ g.cursor <= stream.cursor
  BY DEF Following
<1>12. f.event \notin delivered
  <2> SUFFICES ASSUME f.event \in delivered PROVE FALSE
    OBVIOUS
  <2>1. PICK g \in feed : g.event = f.event /\ g.cursor <= stream.cursor
    BY <1>11
  <2>2. g = f
    BY <1>7, <2>1 DEF Inv, Rows
  <2> QED
    BY <1>3, <1>7, <1>8, <2>1, <2>2
<1>13. \A e \in delivered' : \E g \in feed' : g.event = e /\ g.cursor <= stream'.cursor
  <2>1. ASSUME NEW g \in feed, g.cursor <= stream.cursor PROVE g.cursor <= f.cursor
    <3>1. g.cursor \in Nat /\ stream.cursor \in Nat
      BY <1>3 DEF Inv, Types
    <3> QED
      BY <1>7, <1>8, <2>1, <3>1
  <2>2. f.cursor <= f.cursor
    BY <1>8
  <2> QED
    BY <1>2, <1>7, <1>10, <1>11, <2>1, <2>2
<1>14. Following'
  BY <1>2, <1>9, <1>10, <1>13 DEF Following, Ascends
<1> QED
  BY <1>7, <1>10, <1>12, <1>14, <1>2

(* A connection that ends, or is refused, leaves the cursor where it was.  *)
LEMMA CloseFollows ==
  ASSUME Following, Close \/ Refuse PROVE Following' /\ stream'.cursor = stream.cursor
<1>1. stream \in [state : ReadyStates, cursor : Nat, batch : Seq(feed)]
  BY DEF Following
<1>2. /\ feed' = feed /\ delivered' = delivered
      /\ \/ stream' = [stream EXCEPT !.state = "connecting", !.batch = <<>>]
         \/ stream' = [stream EXCEPT !.state = "closed"]
  BY DEF Close, Refuse
<1>3. <<>> \in Seq(feed) /\ stream.batch \in Seq(feed)
  BY <1>1, EmptySeq
<1>4. /\ stream' \in [state : ReadyStates, cursor : Nat, batch : Seq(feed)]
      /\ stream'.batch \in {<<>>, stream.batch} /\ stream'.cursor = stream.cursor
  BY <1>1, <1>2, <1>3 DEF ReadyStates
<1>5. Ascends(stream'.batch, stream.cursor)
  BY <1>4 DEF Ascends, Following
<1> QED
  BY <1>2, <1>4, <1>5 DEF Following, Ascends

(* A new source has been given nothing.                                    *)
LEMMA RenewFollows ==
  ASSUME Renew PROVE Following' /\ stream'.cursor = 0 /\ delivered' = {}
<1>1. stream' = NewSource /\ delivered' = {} /\ feed' = feed
  BY DEF Renew
<1>2. /\ NewSource \in [state : ReadyStates, cursor : Nat, batch : Seq(feed)]
      /\ NewSource.batch = <<>> /\ NewSource.cursor = 0
  BY EmptySeq DEF NewSource, ReadyStates
<1>3. Ascends(<<>>, 0)
  BY EmptySeq DEF Ascends
<1> QED
  BY <1>1, <1>2, <1>3 DEF Following, Ascends

(* The steps that leave the feed and the stream alone but for new rows.    *)
LEMMA OthersFollow ==
  ASSUME Inv, Following, Next, UNCHANGED <<stream, delivered>> PROVE Following'
<1>1. feed \subseteq feed'
  <2>1. ASSUME NEW w \in Workers, Settle(w) PROVE feed \subseteq feed'
    BY <2>1, SettleInv
  <2>2. ASSUME NEW w \in Workers, StartWorker(w) \/ WorkerStep(w) \/ Crash(w)
        PROVE  feed \subseteq feed'
    BY <2>1, <2>2
       DEF WorkerStep, StartWorker, TakeJob, Claim, Write, RollBack, Postpone, Finish, Crash
  <2> QED
    BY <2>2 DEF Next, CommitSource, Elapse, Rebuild, ReaderStep, Open, ConnectAfter,
       Refuse, Renew, Poll, Deliver, Close, Refetch
<1> QED
  BY <1>1, FollowingKept

LEMMA FollowingInit == Init => Following
<1> SUFFICES ASSUME Init PROVE Following
  OBVIOUS
<1>1. stream = [state |-> "connecting", cursor |-> 0, batch |-> <<>>] /\ delivered = {}
  BY DEF Init, NewSource
<1>2. <<>> \in Seq(feed) /\ DOMAIN <<>> = {}
  BY EmptySeq
<1> QED
  BY <1>1, <1>2 DEF Following, Ascends, ReadyStates

LEMMA FollowingStep == Inv /\ Following /\ [Next]_vars => Following'
<1> SUFFICES ASSUME Inv, Following, [Next]_vars PROVE Following'
  OBVIOUS
<1>1. CASE Open \/ Poll
  BY <1>1, OpenFollows
<1>2. CASE Deliver
  BY <1>2, DeliverFollows
<1>3. CASE Close \/ Refuse \/ Renew
  BY <1>3, CloseFollows, RenewFollows
<1>4. CASE UNCHANGED vars
  BY <1>4, FollowingKept DEF vars, readerVars
<1>5. CASE Next /\ ~(Open \/ Poll \/ Deliver \/ Close \/ Refuse \/ Renew)
  <2>1. ASSUME NEW w \in Workers, StartWorker(w) \/ WorkerStep(w) \/ Crash(w)
        PROVE  UNCHANGED <<stream, delivered>>
    BY <2>1 DEF WorkerStep, StartWorker, TakeJob, Claim, Write, Settle, RollBack,
       Postpone, Finish, Crash, readerVars
  <2>2. UNCHANGED <<stream, delivered>>
    BY <1>5, <2>1 DEF Next, CommitSource, Elapse, Rebuild, ReaderStep, Refetch, readerVars
  <2> QED
    BY <1>5, <2>2, OthersFollow
<1> QED
  BY <1>1, <1>2, <1>3, <1>4, <1>5

(* What the abstract specification knows is what the outbox has committed. *)
LEMMA DeliveryFacts ==
  ASSUME Inv
  PROVE  /\ Delivery!Known = Committed
         /\ \A E : Delivery!Due(E) = Due(E)
         /\ \A s : Delivery!Change(s) = Change(s)
<1>1. Delivery!Known = Committed
  BY DEF Inv, Rows, Delivery!Known, Committed
<1> QED
  BY <1>1 DEF Delivery!Due, Due, Delivery!Change, Change, Delivery!Notification, Notification

(* Every step is a step of EventDelivery, or none: committing, settling,    *)
(* rebuilding and delivering are its actions, and what claims, fails and is *)
(* put off stays waiting.                                                   *)
LEMMA DeliveryStep ==
  Inv /\ Following /\ [Next]_vars
    => [Delivery!Next]_<<Pending, feed, stream.cursor, delivered>>
<1> SUFFICES ASSUME Inv, Following, [Next]_vars
             PROVE  \/ Delivery!Next
                    \/ UNCHANGED <<Pending, feed, stream.cursor, delivered>>
  OBVIOUS
<1> DEFINE Kept == UNCHANGED <<Pending, feed, stream.cursor, delivered>>
<1>1. ASSUME NEW s \in Sources, CommitSource(s) PROVE Delivery!Record(s)
  <2>1. /\ Pending' = Pending \cup {Change(s)} /\ Change(s) \notin Committed
        /\ UNCHANGED <<feed, stream, delivered>>
    BY <1>1, CommitSourceInv DEF CommitSource, readerVars
  <2> QED
    BY <2>1, DeliveryFacts DEF Delivery!Record
<1>2. CASE Elapse
  <2>1. Pending' = Pending /\ UNCHANGED <<feed, stream, delivered>>
    BY <1>2, ElapseInv DEF Elapse, readerVars
  <2> QED
    BY <2>1
<1>3. CASE Rebuild
  <2>1. Pending' = Pending \cup Due(Committed) /\ UNCHANGED <<feed, stream, delivered>>
    BY <1>3, RebuildInv DEF Rebuild, readerVars
  <2> QED
    BY <2>1, DeliveryFacts DEF Delivery!Next, Delivery!Announce
<1>4. ASSUME NEW w \in Workers, Settle(w) PROVE Delivery!Next
  <2>1. UNCHANGED <<stream, delivered>>
    BY <1>4 DEF Settle, readerVars
  <2>2. PICK e \in Pending :
          /\ Pending' = (Pending \ {e}) \cup Due({e})
          /\ \E f \in feed' : /\ f.event = e /\ feed' = feed \cup {f}
                             /\ \A g \in feed : g.cursor # f.cursor
    BY <1>4, SettleInv
  <2>3. Delivery!Publish(e)
    BY <2>1, <2>2, DeliveryFacts DEF Delivery!Publish
  <2> QED
    BY <2>3 DEF Delivery!Next
<1>5. ASSUME NEW w \in Workers, Postpone(w) PROVE Kept
  <2>1. Pending' = Pending /\ UNCHANGED <<feed, stream, delivered>>
    BY <1>5, PostponeInv DEF Postpone, readerVars
  <2> QED
    BY <2>1
<1>6. ASSUME NEW w \in Workers,
             \/ StartWorker(w) \/ TakeJob(w) \/ Claim(w) \/ Write(w)
             \/ RollBack(w) \/ Finish(w) \/ Crash(w)
      PROVE  Kept
  <2>1. UNCHANGED <<ready, delayed, feed, stream, delivered>>
    BY <1>6 DEF StartWorker, TakeJob, Claim, Write, RollBack, Finish, Crash,
       outboxVars, readerVars
  <2> QED
    BY <2>1 DEF Pending
<1>7. CASE Deliver
  <2>1. UNCHANGED <<ready, delayed, feed>>
    BY <1>7 DEF Deliver, outboxVars
  <2>2. Pending' = Pending
    BY <2>1 DEF Pending
  <2>3. PICK f \in feed : /\ f.event[1] \in Visible /\ f.cursor > stream.cursor
                          /\ f.event \notin delivered
                          /\ stream'.cursor = f.cursor
                          /\ delivered' = delivered \cup {f.event}
    BY <1>7, DeliverFollows
  <2>4. Delivery!Receive(f)
    BY <2>1, <2>2, <2>3 DEF Delivery!Receive
  <2> QED
    BY <2>4 DEF Delivery!Next
<1>8. CASE Open \/ Poll \/ Close \/ Refuse \/ Refetch
  <2>1. UNCHANGED <<ready, delayed, feed, delivered>>
    BY <1>8 DEF Open, ConnectAfter, Poll, Close, Refuse, Refetch, outboxVars
  <2>2. Pending' = Pending
    BY <2>1 DEF Pending
  <2>3. stream'.cursor = stream.cursor
    <3>1. stream \in [state : ReadyStates, cursor : Nat, batch : Seq(feed)]
      BY DEF Following
    <3> QED
      BY <1>8, <3>1, CloseFollows DEF Open, ConnectAfter, Poll, Refetch
  <2> QED
    BY <2>1, <2>2, <2>3
<1>10. CASE Renew
  <2>1. UNCHANGED <<ready, delayed, feed>>
    BY <1>10 DEF Renew, outboxVars
  <2>2. Pending' = Pending
    BY <2>1 DEF Pending
  <2>3. Delivery!StartOver
    BY <1>10, <2>1, <2>2, RenewFollows DEF Delivery!StartOver
  <2> QED
    BY <2>3 DEF Delivery!Next
<1>9. CASE UNCHANGED vars
  BY <1>9 DEF vars, outboxVars, readerVars, Pending
<1> QED
  BY <1>1, <1>2, <1>3, <1>4, <1>5, <1>6, <1>7, <1>8, <1>9, <1>10
  DEF Next, WorkerStep, ReaderStep, Delivery!Next

(* The reader's part of the invariant holds as well.                       *)
LEMMA FollowingInvariance == Spec => [](Inv /\ Following)
<1>1. Init => Inv /\ Following
  BY InitInv, FollowingInit
<1>2. Inv /\ Following /\ [Next]_vars => (Inv /\ Following)'
  BY Step, FollowingStep
<1> QED
  BY <1>1, <1>2, PTL DEF Spec

(* OutboxRepository, rebuildProject and the event stream together are an    *)
(* EventDelivery, for any number of workers, sources and faults: what a     *)
(* transaction commits is neither lost nor published twice, and a page is   *)
(* given no event twice and none out of order over the connections of one   *)
(* EventSource; the one it makes for another project starts over.          *)
THEOREM DeliveryImplemented == Spec => ImplementsDelivery
<1>1. Init => Delivery!Init
  <2> SUFFICES ASSUME Init PROVE Delivery!Init
    OBVIOUS
  <2>1. Pending = {} /\ feed = {} /\ stream.cursor = 0 /\ delivered = {}
    BY DEF Init, NewSource, Pending, ToSet
  <2> QED
    BY <2>1 DEF Delivery!Init
<1>2. Inv /\ Following /\ [Next]_vars
        => [Delivery!Next]_<<Pending, feed, stream.cursor, delivered>>
  BY DeliveryStep
<1> QED
  BY <1>1, <1>2, FollowingInvariance, PTL
  DEF Spec, ImplementsDelivery, Delivery!Spec, Delivery!deliveryVars
-----------------------------------------------------------------------------
(* Types.                                                                  *)

(* What TypeOK says beyond the invariant: no cursor is ahead of the feed's *)
(* sequence, and the browser keeps sets of events.                         *)
Bounded ==
  /\ \A w \in Workers : /\ worker[w].cursor <= lastCursor
                        /\ worker[w].phase = "written" => worker[w].cursor >= 1
  /\ \A f \in feed : f.cursor >= 1
  /\ stream.cursor <= lastCursor
  /\ scheduled \in BOOLEAN
  /\ stale \subseteq Events /\ view \subseteq Events /\ delivered \subseteq Events
  /\ faults \in 0..MaxFaults

LEMMA BoundedInit == Init => Bounded
<1> SUFFICES ASSUME Init PROVE Bounded
  OBVIOUS
<1>1. \A w \in Workers : worker[w].cursor = 0 /\ worker[w].phase = "down"
  BY DEF Init, Down, Idle
<1>2. lastCursor = 0 /\ feed = {} /\ stream.cursor = 0 /\ faults = 0
  BY DEF Init, NewSource
<1>3. scheduled = FALSE /\ stale = {} /\ view = {} /\ delivered = {}
  BY DEF Init
<1>4. 0 \in 0..MaxFaults /\ 0 <= 0
  BY BoundsAssumption
<1>5. \A w \in Workers : worker[w].cursor <= lastCursor /\ worker[w].phase # "written"
  BY <1>1, <1>2, <1>4
<1> QED
  BY <1>2, <1>3, <1>4, <1>5 DEF Bounded

(* A process rests with cursor 0, keeps its cursor, or draws the next one.  *)
LEMMA WorkersBounded ==
  ASSUME Inv, Bounded, NEW w \in Workers, StartWorker(w) \/ WorkerStep(w) \/ Crash(w)
  PROVE  /\ lastCursor' \in Nat /\ lastCursor' >= lastCursor
         /\ \A v \in Workers : /\ worker'[v].cursor <= lastCursor'
                               /\ worker'[v].phase = "written" => worker'[v].cursor >= 1
<1>1. /\ worker \in [Workers -> Process] /\ lastCursor \in Nat
      /\ \A v \in Workers : worker[v].cursor \in Nat /\ worker[v].cursor <= lastCursor
      /\ \A v \in Workers : worker[v].phase = "written" => worker[v].cursor >= 1
  BY DEF Inv, Types, Process, Bounded
<1>2. CASE Write(w)
  <2>1. lastCursor' = lastCursor + 1
        /\ worker' = [worker EXCEPT ![w].phase = "written", ![w].cursor = lastCursor']
    BY <1>2 DEF Write
  <2>2. /\ worker'[w].cursor = lastCursor'
        /\ \A v \in Workers \ {w} : worker'[v] = worker[v]
    BY <1>1, <2>1 DEF Process
  <2> QED
    BY <1>1, <2>1, <2>2
<1>3. CASE TakeJob(w) \/ RollBack(w)
  <2>1. PICK p \in Phases \ {"written"} :
          worker' = [worker EXCEPT ![w].phase = p] /\ lastCursor' = lastCursor
    BY <1>3 DEF TakeJob, RollBack, Phases
  <2>2. /\ worker'[w].cursor = worker[w].cursor /\ worker'[w].phase = p
        /\ \A v \in Workers \ {w} : worker'[v] = worker[v]
    BY <1>1, <2>1 DEF Process
  <2> QED
    BY <1>1, <2>1, <2>2
<1>4. CASE StartWorker(w) \/ Claim(w) \/ Settle(w) \/ Postpone(w) \/ Finish(w) \/ Crash(w)
  <2>1. PICK x : /\ worker' = [worker EXCEPT ![w] = x] /\ lastCursor' = lastCursor
                 /\ x.cursor = 0 /\ x.phase # "written"
    <3>1. PICK y : y = [Idle EXCEPT !.phase = "finishing"]
      OBVIOUS
    <3>2. y.cursor = 0 /\ y.phase = "finishing"
      BY <3>1 DEF Idle
    <3>3. Idle.cursor = 0 /\ Idle.phase = "idle" /\ Down.cursor = 0 /\ Down.phase = "down"
      BY DEF Idle, Down
    <3>4. CASE StartWorker(w) \/ Finish(w)
      BY <3>3, <3>4 DEF StartWorker, Finish
    <3>5. CASE Crash(w)
      BY <3>3, <3>5 DEF Crash
    <3>6. CASE Settle(w) \/ Postpone(w)
      BY <3>1, <3>2, <3>6 DEF Settle, Postpone
    <3>7. CASE Claim(w)
      <4>1. lastCursor' = lastCursor
        BY <3>7 DEF Claim
      <4>2. CASE worker' = [worker EXCEPT ![w] = y]
        BY <3>2, <4>1, <4>2
      <4>3. ASSUME NEW i \in Claimable,
                   worker' = [worker EXCEPT ![w] =
                                [phase |-> "claimed", event |-> ready[i], cursor |-> 0]]
            PROVE  \E x : /\ worker' = [worker EXCEPT ![w] = x] /\ lastCursor' = lastCursor
                          /\ x.cursor = 0 /\ x.phase # "written"
        <5>1. PICK z : z = [phase |-> "claimed", event |-> ready[i], cursor |-> 0]
          OBVIOUS
        <5>2. z.cursor = 0 /\ z.phase = "claimed"
          BY <5>1
        <5>3. worker' = [worker EXCEPT ![w] = z]
          BY <4>3, <5>1
        <5> QED
          BY <4>1, <5>2, <5>3
      <4> QED
        BY <3>1, <3>7, <4>2, <4>3, Zenon DEF Claim
    <3> QED
      BY <1>4, <3>4, <3>5, <3>6, <3>7
  <2>2. worker'[w] = x /\ \A v \in Workers \ {w} : worker'[v] = worker[v]
    BY <1>1, <2>1
  <2> QED
    BY <1>1, <2>1, <2>2
<1> QED
  BY <1>2, <1>3, <1>4 DEF WorkerStep

LEMMA BoundedStep == Inv /\ Following /\ Bounded /\ [Next]_vars => Bounded'
<1> SUFFICES ASSUME Inv, Following, Bounded, [Next]_vars PROVE Bounded'
  OBVIOUS
<1>1. /\ lastCursor \in Nat /\ stream.cursor \in Nat /\ faults \in 0..MaxFaults
      /\ stream \in [state : ReadyStates, cursor : Nat, batch : Seq(feed)]
  BY DEF Inv, Types, Following, Bounded
<1>2. CASE UNCHANGED vars
  BY <1>2 DEF vars, readerVars, Bounded
<1>3. CASE (\E s \in Sources : CommitSource(s)) \/ Elapse \/ Rebuild
  BY <1>3 DEF CommitSource, Elapse, Rebuild, readerVars, Bounded
<1>4. ASSUME NEW w \in Workers, StartWorker(w) \/ WorkerStep(w) \/ Crash(w)
      PROVE  Bounded'
  <2>1. /\ lastCursor' \in Nat /\ lastCursor' >= lastCursor
        /\ \A v \in Workers : /\ worker'[v].cursor <= lastCursor'
                              /\ worker'[v].phase = "written" => worker'[v].cursor >= 1
    BY <1>4, WorkersBounded
  <2>2. UNCHANGED <<stream, stale, view, delivered>> /\ scheduled' \in BOOLEAN
    BY <1>4 DEF WorkerStep, StartWorker, TakeJob, Claim, Write, Settle, RollBack,
       Postpone, Finish, Crash, readerVars, Bounded
  <2>3. faults' \in 0..MaxFaults
    <3>1. faults' = faults \/ Fault
      BY <1>4 DEF WorkerStep, StartWorker, TakeJob, Claim, Write, Settle, RollBack,
         Postpone, Finish, Crash
    <3> QED
      BY <1>1, <3>1, BoundsAssumption DEF Fault
  <2>4. \A f \in feed' : f.cursor >= 1
    <3>1. CASE Settle(w)
      BY <3>1 DEF Settle, Bounded
    <3>2. CASE feed' = feed
      BY <3>2 DEF Bounded
    <3> QED
      BY <1>4, <3>1, <3>2
         DEF WorkerStep, StartWorker, TakeJob, Claim, Write, RollBack, Postpone, Finish, Crash
  <2>5. stream'.cursor <= lastCursor'
    BY <1>1, <2>1, <2>2 DEF Bounded
  <2> QED
    BY <2>1, <2>2, <2>3, <2>4, <2>5 DEF Bounded
<1>5. CASE ReaderStep
  <2>1. UNCHANGED <<lastCursor, feed, worker, scheduled>>
    BY <1>5 DEF ReaderStep, Open, ConnectAfter, Refuse, Renew, Poll, Deliver, Close, Refetch
  <2>2. faults' \in 0..MaxFaults
    <3>1. faults' = faults \/ Fault
      BY <1>5 DEF ReaderStep, Open, ConnectAfter, Refuse, Renew, Poll, Deliver, Close, Refetch
    <3> QED
      BY <1>1, <3>1, BoundsAssumption DEF Fault
  <2>3. /\ stream'.cursor <= lastCursor
        /\ stale' \subseteq Events /\ view' \subseteq Events /\ delivered' \subseteq Events
    <3>1. CASE Deliver
      <4>1. PICK f \in feed : /\ stream'.cursor = f.cursor
                              /\ delivered' = delivered \cup {f.event}
        BY <3>1, DeliverFollows
      <4>2. f.cursor <= lastCursor /\ f.event \in Events
        BY DEF Inv, Types, Numbers
      <4>3. Head(stream.batch) \in feed
        <5>1. stream.batch \in Seq(feed) /\ stream.batch # <<>>
          BY <1>1, <3>1 DEF Deliver
        <5> QED
          BY <5>1
      <4>4. stale' = stale \cup {Head(stream.batch).event} /\ view' = view
        BY <3>1 DEF Deliver
      <4>5. Head(stream.batch).event \in Events
        BY <4>3 DEF Inv, Types
      <4> QED
        BY <4>1, <4>2, <4>4, <4>5 DEF Bounded
    <3>2. CASE Open \/ Poll \/ Close \/ Refuse
      <4>1. stream'.cursor = stream.cursor
        BY <1>1, <3>2, CloseFollows DEF Open, ConnectAfter, Poll
      <4> QED
        BY <3>2, <4>1 DEF Open, ConnectAfter, Poll, Close, Refuse, Bounded
    <3>4. CASE Renew
      <4>1. stream'.cursor = 0 /\ delivered' = {} /\ UNCHANGED <<stale, view>>
        BY <3>4, RenewFollows DEF Renew
      <4>2. 0 <= lastCursor
        BY <1>1
      <4> QED
        BY <4>1, <4>2 DEF Bounded
    <3>3. CASE Refetch
      BY <3>3 DEF Refetch, Bounded
    <3> QED
      BY <1>5, <3>1, <3>2, <3>3, <3>4 DEF ReaderStep
  <2> QED
    BY <2>1, <2>2, <2>3 DEF Bounded
<1> QED
  BY <1>2, <1>3, <1>4, <1>5 DEF Next

(* The types of the outbox, the feed, the worker processes and the stream,  *)
(* and no cursor ahead of the sequence it came from.                       *)
THEOREM TypeCorrectness == Spec => []TypeOK
<1>1. Init => Bounded
  BY BoundedInit
<1>2. Inv /\ Following /\ Bounded /\ [Next]_vars => Bounded'
  BY BoundedStep
<1>3. Inv /\ Following /\ Bounded => TypeOK
  <2> SUFFICES ASSUME Inv, Following, Bounded PROVE TypeOK
    OBVIOUS
  <2>1. feed \subseteq [cursor : 1..lastCursor, event : Events]
    <3>1. ASSUME NEW f \in feed PROVE f \in [cursor : 1..lastCursor, event : Events]
      <4>1. /\ f \in [cursor : Nat, event : Events] /\ lastCursor \in Nat
            /\ f.cursor <= lastCursor /\ f.cursor >= 1
        BY DEF Inv, Types, Numbers, Bounded
      <4>2. f.cursor \in 1..lastCursor
        BY <4>1
      <4> QED
        BY <4>1, <4>2
    <3> QED
      BY <3>1
  <2>2. worker \in [Workers -> [phase : Phases, event : Events \cup {NoEvent},
                                cursor : 0..lastCursor]]
    <3>1. worker \in [Workers -> Process]
      BY DEF Inv, Types
    <3>2. ASSUME NEW w \in Workers
          PROVE  worker[w] \in [phase : Phases, event : Events \cup {NoEvent},
                                cursor : 0..lastCursor]
      <4>1. worker[w] \in Process /\ lastCursor \in Nat /\ worker[w].cursor <= lastCursor
        BY <3>1 DEF Inv, Types, Bounded
      <4>2. worker[w].cursor \in 0..lastCursor
        BY <4>1 DEF Process
      <4> QED
        BY <4>1, <4>2 DEF Process
    <3> QED
      BY <3>1, <3>2
  <2>3. stream.state \in ReadyStates /\ stream.cursor \in 0..lastCursor /\ stream.batch \in Seq(feed)
    BY DEF Inv, Types, Following, Bounded
  <2>4. {ready, delayed} \subseteq Seq(Events)
    BY DEF Inv, Types
  <2>5. {stale, view, delivered} \subseteq SUBSET Events
    BY DEF Bounded
  <2> QED
    BY <2>1, <2>2, <2>3, <2>4, <2>5 DEF TypeOK, Inv, Types, Bounded, Phases
<1> QED
  BY <1>1, <1>2, <1>3, FollowingInvariance, PTL DEF Spec
============================================================================
