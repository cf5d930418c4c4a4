--------------------------- MODULE TaskTreeProofs ---------------------------
(***************************************************************************)
(* For any number of tasks, members, clients and requests: the enabled     *)
(* dependencies of every scope stay acyclic and between live siblings, a   *)
(* request takes effect once, and who changes a task leaves it with a      *)
(* version nobody has seen.  Where nobody creates or reopens a task, none  *)
(* that is completed comes to wait for a child or a predecessor that is    *)
(* not.                                                                    *)
(*                                                                         *)
(* The invariant has a part for the tables and a part for each client, and *)
(* the proof is by rely and guarantee.  A client's part says which locks   *)
(* its transaction has or is about to take, that what it keeps still       *)
(* stands, and what of its decision the others cannot take away.  A step   *)
(* guarantees that versions only grow, that a task changes only under a    *)
(* lock on the project, and that nothing joins a scope unless its row is   *)
(* locked; from this alone the parts of all other clients follow, once for *)
(* all actions (OthersRely).  What remains for each action is its own      *)
(* client's part and the tables.                                           *)
(***************************************************************************)
EXTENDS TaskTree, WellFoundedInduction, FiniteSetTheorems, SequenceTheorems, TLAPS

-----------------------------------------------------------------------------
(* Natural numbers, and functions that iterate.                            *)

\* A set of natural numbers has a least one.
LEMMA LeastNatural ==
  ASSUME NEW T \in SUBSET Nat, T # {}
  PROVE  \E m \in T : \A n \in T : m <= n
<1> DEFINE R == OpToRel(<, Nat)
<1>1. IsWellFoundedOn(R, Nat)
  BY NatLessThanWellFounded
<1>2. \E m \in T : \A n \in T : <<n, m>> \notin R
  BY <1>1, WFMin
<1>3. \A n, m \in Nat : n < m => <<n, m>> \in R
  BY DEF OpToRel
<1> HIDE DEF R
<1>4. PICK m \in T : \A n \in T : <<n, m>> \notin R
  BY <1>2
<1>5. ASSUME NEW n \in T PROVE m <= n
  <2>1. ~(n < m)
    BY <1>3, <1>4
  <2> QED
    BY <2>1
<1> QED
  BY <1>4, <1>5

\* A set that has 0 and with n its successor has every natural number.
LEMMA AllNaturals ==
  ASSUME NEW T, 0 \in T, \A n \in Nat : n \in T => n + 1 \in T
  PROVE  Nat \subseteq T
<1> SUFFICES ASSUME Nat \ T # {} PROVE FALSE
  OBVIOUS
<1>1. PICK m \in Nat \ T : \A n \in Nat \ T : m <= n
  BY LeastNatural
<1>2. m - 1 \in Nat /\ m - 1 \in T
  BY <1>1
<1> QED
  BY <1>1, <1>2

Iterates(f, next, s) == f[0] = s /\ \A n \in Nat : f[n + 1] = next[f[n]]

\* A function can be applied again and again.
LEMMA Iteration ==
  ASSUME NEW U, NEW next \in [U -> U], NEW s \in U
  PROVE  \E f \in [Nat -> U] : Iterates(f, next, s)
<1> DEFINE Upto(n) == {f \in [0..n -> U] :
                         f[0] = s /\ \A i \in 0..n : i < n => f[i + 1] = next[f[i]]}
           Good == {n \in Nat : Upto(n) # {}}
           Same == {n \in Nat : \A k \in Nat : \A f \in Upto(n), g \in Upto(n + k) : f[n] = g[n]}
<1>1. Nat \subseteq Good
  <2>1. 0 \in Good
    <3>1. [i \in 0..0 |-> s] \in Upto(0)
      OBVIOUS
    <3> QED
      BY <3>1
  <2>2. ASSUME NEW n \in Nat, n \in Good
        PROVE  n + 1 \in Good
    <3>1. PICK f \in Upto(n) : TRUE
      BY <2>2
    <3> DEFINE g == [i \in 0..(n + 1) |-> IF i = n + 1 THEN next[f[n]] ELSE f[i]]
    <3>2. g \in [0..(n + 1) -> U]
      BY <3>1
    <3>3. g[0] = s
      BY <3>1
    <3>4. ASSUME NEW i \in 0..(n + 1), i < n + 1
          PROVE  g[i + 1] = next[g[i]]
      BY <3>1, <3>4
    <3>5. g \in Upto(n + 1)
      BY <3>2, <3>3, <3>4
    <3> QED
      BY <3>5
  <2> HIDE DEF Good
  <2> QED
    BY <2>1, <2>2, AllNaturals
<1>2. Nat \subseteq Same
  <2>1. 0 \in Same
    OBVIOUS
  <2>2. ASSUME NEW n \in Nat, n \in Same
        PROVE  n + 1 \in Same
    <3> SUFFICES ASSUME NEW k \in Nat, NEW f \in Upto(n + 1), NEW g \in Upto(n + 1 + k)
                 PROVE  f[n + 1] = g[n + 1]
      <4> n + 1 \in Nat
        OBVIOUS
      <4> QED
        OBVIOUS
    <3> DEFINE h == [i \in 0..n |-> f[i]]
    <3>1. h \in Upto(n)
      OBVIOUS
    <3>2. g \in Upto(n + (k + 1)) /\ k + 1 \in Nat
      OBVIOUS
    <3>3. h[n] = g[n]
      <4> HIDE DEF Upto, h
      <4> QED
        BY <2>2, <3>1, <3>2
    <3>5. h[n] = f[n]
      OBVIOUS
    <3>4. f[n + 1] = next[f[n]] /\ g[n + 1] = next[g[n]]
      OBVIOUS
    <3> QED
      BY <3>3, <3>4, <3>5
  <2> HIDE DEF Same
  <2> QED
    BY <2>1, <2>2, AllNaturals
<1> DEFINE pick == [n \in Nat |-> CHOOSE f \in Upto(n) : TRUE]
           F == [n \in Nat |-> pick[n][n]]
<1>3. ASSUME NEW n \in Nat PROVE pick[n] \in Upto(n)
  <2>1. n \in Good
    BY <1>1
  <2> HIDE DEF Upto
  <2>2. Upto(n) # {}
    BY <2>1
  <2> QED
    BY <2>2
<1> HIDE DEF pick
<1>4. ASSUME NEW n \in Nat, NEW f \in Upto(n)
      PROVE  /\ f[n] \in U /\ f[0] = s
             /\ \A i \in 0..n : i < n => f[i + 1] = next[f[i]]
  OBVIOUS
<1>5. ASSUME NEW n \in Nat, NEW f \in Upto(n), NEW g \in Upto(n + 1)
      PROVE  f[n] = g[n]
  <2>1. n \in Same /\ 1 \in Nat
    BY <1>2
  <2> HIDE DEF Upto
  <2> QED
    BY <2>1
<1> HIDE DEF Upto, Good, Same
<1>6. F \in [Nat -> U] /\ F[0] = s
  BY <1>3, <1>4
<1>7. ASSUME NEW n \in Nat PROVE F[n + 1] = next[F[n]]
  <2>1. n + 1 \in Nat /\ n < n + 1 /\ n \in 0..(n + 1)
    OBVIOUS
  <2>2. pick[n][n] = pick[n + 1][n]
    BY <1>3, <1>5, <2>1
  <2>3. pick[n + 1][n + 1] = next[pick[n + 1][n]]
    BY <1>3, <1>4, <2>1
  <2> QED
    BY <2>1, <2>2, <2>3
<1> HIDE DEF F
<1> QED
  BY <1>6, <1>7 DEF Iterates

\* The recursion of Reach is well defined.
Reaches(f, R, S) ==
  /\ f[0] = S
  /\ \A n \in Nat : f[n + 1] = f[n] \cup {e[2] : e \in {g \in R : g[1] \in f[n]}}
  /\ Reach(R, S) = f[Cardinality(Tasks)]

\* Reach does what its recursion says.
LEMMA ReachSteps ==
  ASSUME NEW R, NEW S
  PROVE  \E f : Reaches(f, R, S)
<1> DEFINE Near(A) == A \cup {e[2] : e \in {g \in R : g[1] \in A}}
           All == S \cup {e[2] : e \in R}
           next == [A \in SUBSET All |-> Near(A)]
           Recursion(f) == [n \in Nat |-> IF n = 0 THEN S
                              ELSE LET near == f[n - 1] IN near \cup {e[2] : e \in {g \in R : g[1] \in near}}]
           F == CHOOSE f : f = Recursion(f)
<1>1. next \in [SUBSET All -> SUBSET All]
  OBVIOUS
<1>2. S \in SUBSET All
  OBVIOUS
<1>3. PICK f \in [Nat -> SUBSET All] : Iterates(f, next, S)
  <2> HIDE DEF All, next
  <2> QED
    BY <1>1, <1>2, Iteration
<1>4. f[0] = S /\ \A n \in Nat : f[n + 1] = Near(f[n])
  BY <1>3 DEF Iterates
<1>5. f = Recursion(f)
  <2>1. ASSUME NEW n \in Nat PROVE f[n] = Recursion(f)[n]
    <3>1. CASE n = 0
      BY <1>4, <3>1
    <3>2. CASE n # 0
      <4>1. n - 1 \in Nat /\ (n - 1) + 1 = n
        BY <3>2
      <4> QED
        BY <1>4, <3>2, <4>1
    <3> QED
      BY <3>1, <3>2
  <2>2. Recursion(f) = [n \in Nat |-> Recursion(f)[n]]
    OBVIOUS
  <2> QED
    BY <1>3, <2>1, <2>2
<1>6. F = Recursion(F)
  <2> HIDE DEF Recursion
  <2> QED
    BY <1>5
<1>7. F[0] = S
  <2> HIDE DEF F
  <2> QED
    BY <1>6
<1>8. ASSUME NEW n \in Nat PROVE F[n + 1] = Near(F[n])
  <2> HIDE DEF F
  <2>1. n + 1 # 0 /\ n + 1 \in Nat /\ (n + 1) - 1 = n
    OBVIOUS
  <2> QED
    BY <1>6, <2>1
<1>9. Reach(R, S) = F[Cardinality(Tasks)]
  BY DEF Reach
<1> HIDE DEF F
<1> QED
  BY <1>7, <1>8, <1>9 DEF Reaches

\* What is reached includes the start and stays within every set that is closed.
LEMMA ReachBounds ==
  ASSUME NEW R, NEW S, NEW C, S \subseteq C, \A e \in R : e[1] \in C => e[2] \in C
  PROVE  S \subseteq Reach(R, S) /\ Reach(R, S) \subseteq C
<1>1. PICK f : Reaches(f, R, S)
  BY ReachSteps
<1> DEFINE Good == {n \in Nat : S \subseteq f[n] /\ f[n] \subseteq C}
<1>2. 0 \in Good
  BY <1>1 DEF Reaches
<1>3. ASSUME NEW n \in Nat, n \in Good PROVE n + 1 \in Good
  BY <1>1, <1>3 DEF Reaches
<1>4. Nat \subseteq Good
  <2> HIDE DEF Good
  <2> QED
    BY <1>2, <1>3, AllNaturals
<1>5. Cardinality(Tasks) \in Nat
  BY IdsAssumption, FS_CardinalityType
<1> QED
  BY <1>1, <1>4, <1>5 DEF Reaches

\* More edges reach more.
LEMMA ReachGrows ==
  ASSUME NEW Q, NEW R, NEW S, Q \subseteq R
  PROVE  Reach(Q, S) \subseteq Reach(R, S)
<1>1. PICK f : Reaches(f, Q, S)
  BY ReachSteps
<1>2. PICK h : Reaches(h, R, S)
  BY ReachSteps
<1> DEFINE Good == {n \in Nat : f[n] \subseteq h[n]}
<1>3. 0 \in Good
  BY <1>1, <1>2 DEF Reaches
<1>4. ASSUME NEW n \in Nat, n \in Good PROVE n + 1 \in Good
  <2>1. f[n] \subseteq h[n]
    BY <1>4
  <2>2. {e[2] : e \in {g \in Q : g[1] \in f[n]}} \subseteq {e[2] : e \in {g \in R : g[1] \in h[n]}}
    BY <2>1
  <2>3. f[n + 1] = f[n] \cup {e[2] : e \in {g \in Q : g[1] \in f[n]}}
    BY <1>1 DEF Reaches
  <2>4. h[n + 1] = h[n] \cup {e[2] : e \in {g \in R : g[1] \in h[n]}}
    BY <1>2 DEF Reaches
  <2>5. f[n + 1] \subseteq h[n + 1]
    BY <2>1, <2>2, <2>3, <2>4, Zenon
  <2> QED
    BY <2>5
<1>5. Nat \subseteq Good
  <2> HIDE DEF Good
  <2> QED
    BY <1>3, <1>4, AllNaturals
<1>6. Cardinality(Tasks) \in Nat
  BY IdsAssumption, FS_CardinalityType
<1> QED
  BY <1>1, <1>2, <1>5, <1>6 DEF Reaches

\* A part of an acyclic relation is acyclic.
LEMMA FewerEdgesFewerCycles ==
  ASSUME NEW Q, NEW R, Q \subseteq R, ~Cyclic(R)
  PROVE  ~Cyclic(Q)
BY ReachGrows DEF Cyclic

\* The owner a task has is a member, or there is none.
LEMMA OwnerType ==
  ASSUME tasks \in [Tasks -> Row], NEW t \in Tasks
  PROVE  EffectiveOwner(t) \in Members \cup {Inherit}
<1> DEFINE Up(u) == IF tasks[u].owner # Inherit \/ tasks[u].parent = Root THEN u ELSE tasks[u].parent
           next == [u \in Tasks |-> Up(u)]
           Recursion(f) == [n \in Nat |-> IF n = 0 THEN t
              ELSE LET u == f[n - 1] IN
                   IF tasks[u].owner # Inherit \/ tasks[u].parent = Root THEN u ELSE tasks[u].parent]
           F == CHOOSE f : f = Recursion(f)
<1>1. next \in [Tasks -> Tasks]
  BY DEF Row
<1>2. PICK f \in [Nat -> Tasks] : Iterates(f, next, t)
  <2> HIDE DEF next
  <2> QED
    BY <1>1, Iteration
<1>3. f[0] = t /\ \A n \in Nat : f[n + 1] = Up(f[n])
  BY <1>2 DEF Iterates
<1>4. f = Recursion(f)
  <2>1. ASSUME NEW n \in Nat PROVE f[n] = Recursion(f)[n]
    <3>1. CASE n = 0
      BY <1>3, <3>1
    <3>2. CASE n # 0
      <4>1. n - 1 \in Nat /\ (n - 1) + 1 = n
        BY <3>2
      <4> QED
        BY <1>3, <3>2, <4>1
    <3> QED
      BY <3>1, <3>2
  <2>2. Recursion(f) = [n \in Nat |-> Recursion(f)[n]]
    OBVIOUS
  <2> QED
    BY <1>2, <2>1, <2>2
<1>5. F = Recursion(F)
  <2> HIDE DEF Recursion
  <2> QED
    BY <1>4
<1> DEFINE Good == {n \in Nat : F[n] \in Tasks}
<1>6. 0 \in Good
  <2> HIDE DEF F
  <2> QED
    BY <1>5
<1>7. ASSUME NEW n \in Nat, n \in Good PROVE n + 1 \in Good
  <2> HIDE DEF F
  <2>1. n + 1 # 0 /\ n + 1 \in Nat /\ (n + 1) - 1 = n
    OBVIOUS
  <2>2. F[n + 1] = Up(F[n])
    BY <1>5, <2>1
  <2> QED
    BY <1>1, <1>7, <2>1, <2>2
<1>8. Nat \subseteq Good
  <2> HIDE DEF Good
  <2> QED
    BY <1>6, <1>7, AllNaturals
<1>9. Cardinality(Tasks) \in Nat
  BY IdsAssumption, FS_CardinalityType
<1>10. EffectiveOwner(t) = tasks[F[Cardinality(Tasks)]].owner
  BY DEF EffectiveOwner
<1> HIDE DEF F
<1>11. F[Cardinality(Tasks)] \in Tasks
  BY <1>8, <1>9
<1> QED
  BY <1>10, <1>11 DEF Row

-----------------------------------------------------------------------------
(* Lists of the elements of a finite set of numbers, by a key.             *)

\* Every finite set of numbers has an order by key, then by number.
Ordered(s, k) == \A i, j \in DOMAIN s : i < j =>
                   k[s[i]] < k[s[j]] \/ (k[s[i]] = k[s[j]] /\ s[i] < s[j])

\* A finite set of numbers can be listed by a key, ties by number.
LEMMA SortedExists ==
  ASSUME NEW U \in SUBSET Nat, NEW k \in [U -> Nat]
  PROVE  \A S \in SUBSET U : IsFiniteSet(S) => \E s \in SetToSeqs(S) : Ordered(s, k)
<1> DEFINE Good == {n \in Nat : \A S \in SUBSET U :
                      IsFiniteSet(S) /\ Cardinality(S) = n => \E s \in SetToSeqs(S) : Ordered(s, k)}
<1>1. 0 \in Good
  <2> SUFFICES ASSUME NEW S \in SUBSET U, IsFiniteSet(S), Cardinality(S) = 0
               PROVE  \E s \in SetToSeqs(S) : Ordered(s, k)
    OBVIOUS
  <2> DEFINE e == [i \in 1..0 |-> 0]
  <2>1. e \in [1..0 -> S] /\ DOMAIN e = {}
    OBVIOUS
  <2>2. e \in SetToSeqs(S)
    BY <2>1 DEF SetToSeqs
  <2>3. Ordered(e, k)
    BY <2>1 DEF Ordered
  <2> QED
    BY <2>2, <2>3
<1>2. ASSUME NEW n \in Nat, n \in Good PROVE n + 1 \in Good
  <2> SUFFICES ASSUME NEW S \in SUBSET U, IsFiniteSet(S), Cardinality(S) = n + 1
               PROVE  \E s \in SetToSeqs(S) : Ordered(s, k)
    OBVIOUS
  <2>1. S # {}
    BY FS_EmptySet
  <2> DEFINE K1 == {k[t] : t \in S}
  <2>2. PICK m \in K1 : \A v \in K1 : m <= v
    <3>1. K1 \in SUBSET Nat /\ K1 # {}
      BY <2>1
    <3> HIDE DEF K1
    <3> QED
      BY <3>1, LeastNatural
  <2> DEFINE T == {t \in S : k[t] = m}
  <2>3. PICK t \in T : \A u \in T : t <= u
    <3>1. T \in SUBSET Nat /\ T # {}
      BY <2>2
    <3> HIDE DEF T
    <3> QED
      BY <3>1, LeastNatural
  <2>4. t \in S /\ \A u \in S : u # t => k[t] < k[u] \/ (k[t] = k[u] /\ t < u)
    <3>1. \A u \in S : k[u] \in Nat /\ u \in Nat /\ m <= k[u]
      BY <2>2
    <3>2. t \in S /\ k[t] = m
      BY <2>3
    <3>3. \A u \in S : k[u] = m => t <= u
      BY <2>3
    <3> QED
      BY <3>1, <3>2, <3>3
  <2> DEFINE R == S \ {t}
  <2>5. IsFiniteSet(R) /\ Cardinality(R) = n /\ R \in SUBSET U
    BY <2>4, FS_RemoveElement
  <2>6. PICK s \in SetToSeqs(R) : Ordered(s, k)
    <3> HIDE DEF R
    <3> QED
      BY <1>2, <2>5
  <2>7. s \in [1..n -> R] /\ \A i, j \in 1..n : i # j => s[i] # s[j]
    BY <2>5, <2>6 DEF SetToSeqs
  <2> DEFINE z == [i \in 1..(n + 1) |-> IF i = 1 THEN t ELSE s[i - 1]]
  <2>8. z \in [1..(n + 1) -> S]
    BY <2>4, <2>7
  <2>9. ASSUME NEW i \in 1..(n + 1), NEW j \in 1..(n + 1), i < j
        PROVE  /\ k[z[i]] < k[z[j]] \/ (k[z[i]] = k[z[j]] /\ z[i] < z[j])
               /\ z[i] # z[j]
    <3>1. z[j] = s[j - 1] /\ j - 1 \in 1..n /\ s[j - 1] \in R
      BY <2>7, <2>9
    <3>2. CASE i = 1
      BY <2>4, <3>1, <3>2
    <3>3. CASE i # 1
      <4>1. z[i] = s[i - 1] /\ i - 1 \in 1..n /\ i - 1 < j - 1
        BY <2>9, <3>3
      <4>2. DOMAIN s = 1..n
        BY <2>7
      <4> QED
        BY <2>6, <2>7, <3>1, <4>1, <4>2 DEF Ordered
    <3> QED
      BY <3>2, <3>3
  <2>10. \A i, j \in 1..(n + 1) : i # j => z[i] # z[j]
    <3> SUFFICES ASSUME NEW i \in 1..(n + 1), NEW j \in 1..(n + 1), i # j
                 PROVE  z[i] # z[j]
      OBVIOUS
    <3>1. i < j \/ j < i
      OBVIOUS
    <3> HIDE DEF z
    <3> QED
      BY <2>9, <3>1
  <2>11. z \in SetToSeqs(S)
    <3> HIDE DEF z
    <3> QED
      BY <2>8, <2>10 DEF SetToSeqs
  <2>12. Ordered(z, k)
    <3>1. DOMAIN z = 1..(n + 1)
      OBVIOUS
    <3> HIDE DEF z
    <3> QED
      BY <2>9, <3>1 DEF Ordered
  <2> QED
    BY <2>11, <2>12
<1>3. Nat \subseteq Good
  <2> HIDE DEF Good
  <2> QED
    BY <1>1, <1>2, AllNaturals
<1> SUFFICES ASSUME NEW S \in SUBSET U, IsFiniteSet(S)
             PROVE  \E s \in SetToSeqs(S) : Ordered(s, k)
  OBVIOUS
<1>4. Cardinality(S) \in Nat
  BY FS_CardinalityType
<1>5. Cardinality(S) \in Good
  BY <1>3, <1>4
<1> QED
  BY <1>5

\* A list of a set has all its elements.
LEMMA ListsHaveAll ==
  ASSUME NEW S, IsFiniteSet(S), NEW s \in SetToSeqs(S)
  PROVE  s \in [1..Cardinality(S) -> S] /\ Cardinality(S) \in Nat
         /\ {s[i] : i \in 1..Cardinality(S)} = S
<1> DEFINE D == 1..Cardinality(S)
<1>1. Cardinality(S) \in Nat
  BY FS_CardinalityType
<1>2. IsFiniteSet(D) /\ Cardinality(D) = Cardinality(S)
  BY <1>1, FS_Interval
<1>3. s \in [D -> S] /\ \A i, j \in D : i # j => s[i] # s[j]
  BY DEF SetToSeqs
<1> HIDE DEF D
<1>4. s \in Injection(D, S)
  BY <1>3 DEF Injection, IsInjective
<1>5. s \in Surjection(D, S)
  BY <1>2, <1>4, FS_Injection
<1> QED
  BY <1>1, <1>3, <1>5 DEF Surjection, D

-----------------------------------------------------------------------------
(* The inductive invariant.                                                *)

Locks == [lock : {"project", "task", "scope", "ask"} \X Nat, mode : {"X", "N", "K"}]

Owner == Members \cup {Inherit}

ScopeIds == Tasks \cup {Root}

Statuses == {"pending", "accepted", "rejected", "expired", "stale", "gone"}

AskRow == [op : Links, pred : Tasks, succ : Tasks, scope : ScopeIds, graph : Nat,
           owners : Owner \X Owner, acceptor : Owner, status : Statuses]

Ops == {"create", "move", "complete", "reopen", "own"} \cup
       Edits \cup Links \cup Answers \cup Follows \cup Destructions

Born(t)    == tasks[t].life # "unborn"
Deleted(t) == tasks[t].life = "deleted"

\* What a client can have asked for.
RequestOK(r) ==
  /\ r.key \in 1..prepared
  /\ r.op \in Ops
  /\ r.task \in ScopeIds /\ (r.op # "create" => r.task # Root)
  /\ r.task # Root => Born(r.task)
  /\ r.op \in {"create", "own"} => r.other \in Owner
  /\ r.op \in Links \cup Follows => r.other \in Tasks
  /\ r.op \in Answers => r.other \in DOMAIN asks
  /\ r.op = "move" => r.other \in ScopeIds

\* A connection that is free holds nothing and waits for nothing.
TxnOK(p) ==
  /\ txn[p] = [stage |-> txn[p].stage, request |-> txn[p].request, tries |-> txn[p].tries,
               todo |-> txn[p].todo, held |-> txn[p].held, kept |-> txn[p].kept]
  /\ txn[p].stage \in {"idle", "opening", "working", "closing"}
  /\ txn[p].todo \in Seq(Locks) /\ txn[p].held \subseteq Locks
  /\ txn[p].stage = "idle" => txn[p].todo = <<>> /\ txn[p].held = {}
  /\ Request(p) = NoRequest => txn[p].stage = "idle"
  /\ Request(p) # NoRequest => RequestOK(Request(p))

\* The locks a transaction has, or takes before its next decision.
Claims(p) == txn[p].held \cup Range(txn[p].todo)

Under(p)  == txn[p].stage \in {"working", "closing"}
Closes(p) == txn[p].stage = "closing"

\* The scope whose lock a change of dependencies rests on.
EdgeScope(p) ==
  IF Request(p).op \in Answers THEN asks[Request(p).other].scope
  ELSE IF txn[p].stage = "closing" THEN txn[p].kept.scope ELSE txn[p].kept

\* The locks under which links, answers and moves decide.
Guards(p) ==
  LET r == Request(p) IN
  CASE r.op \in Links \cup Answers -> {X(Scope(EdgeScope(p)))}
    [] r.op = "move" -> {X(Scope(txn[p].kept)), X(Scope(r.other)), X(Task(r.task))}
    [] OTHER -> {}

\* Whoever opens with the project's row has it from then on, and whoever
\* writes has at least a share in it; an archive has the scopes of its tasks.
Claimed(p) ==
  /\ txn[p].stage = "opening" /\ Request(p).op \in OpensProject => X(Project) \in Claims(p)
  /\ Under(p) /\ Request(p).op \in OpensProject => X(Project) \in txn[p].held
  /\ Under(p) => Guards(p) \subseteq Claims(p)
  /\ Closes(p) => /\ Guards(p) \subseteq txn[p].held
                  /\ X(Project) \in Claims(p) \/ K(Project) \in Claims(p)
  /\ Closes(p) /\ Request(p).op = "archive" =>
       \A u \in DOMAIN txn[p].kept : N(Scope(tasks[u].parent)) \in Claims(p)

\* What a transaction keeps is what is there still: the lock on the project
\* holds off whoever could change it.
Standing(p) ==
  LET r == Request(p)  kept == txn[p].kept IN
  /\ r.op = "create" => r.task = Root \/ Exists(r.task)
  /\ r.op = "create" /\ Closes(p) => \E u \in Tasks : tasks[u].life = "unborn"
  /\ r.op \in Destructions => Exists(r.task)
  /\ r.op = "archive" => kept = Versions(Subtree(r.task))
  /\ r.op = "delete" /\ Closes(p) => kept = Subtree(r.task)
  /\ r.op = "complete" /\ Closes(p) => kept \in Owner
  /\ r.op = "move" => kept \in ScopeIds
  /\ r.op \in Links /\ ~Closes(p) => kept \in ScopeIds
  /\ r.op \in Links /\ Closes(p) => kept.scope \in ScopeIds

\* Of a version a request was shown: it is there still, or gone beyond.
Reached(t, v)      == v \in Nat /\ (Deleted(t) \/ tasks[t].version >= v)
Passed(t, v)       == v \in Nat /\ (Deleted(t) \/ tasks[t].version > v)
ScopeReached(s, v) == v \in Nat /\ ((s # Root /\ Deleted(s)) \/ graph[s] >= v)
ScopePassed(s, v)  == v \in Nat /\ ((s # Root /\ Deleted(s)) \/ graph[s] > v)

Versioned == {"move"} \cup Destructions

\* Why a request that took effect is refused from then on.
Spent(r, s) ==
  /\ r.op \in Recording => r.key \in recorded
  /\ r.op \in Edits => Passed(r.task, r.shown[1])
  /\ r.op \in Versioned => Passed(r.task, r.shown[2])
  /\ r.op \in Links => ScopePassed(s, r.shown[1])
  /\ r.op \in Answers => asks[r.other].status # "pending"

SpentOnce(p) ==
  Request(p) # NoRequest =>
    \A s \in ScopeIds : effects[<<Request(p).key, s>>] > 0 => Spent(Request(p), s)

EffectScope(p) == IF Request(p).op \in Links THEN txn[p].kept.scope ELSE Root

\* A transaction that will write has not written before, and what it decided
\* on can only have moved on.
Fresh(p) ==
  LET r == Request(p) IN
  /\ Under(p) /\ r.op \in Recording \cup Answers => effects[<<r.key, Root>>] = 0
  /\ Closes(p) /\ r.op \notin Follows =>
       /\ effects[<<r.key, EffectScope(p)>>] = 0
       /\ r.op \in Edits => Reached(r.task, r.shown[1])
       /\ r.op \in Versioned => Reached(r.task, r.shown[2])
       /\ r.op \in Links => ScopeReached(txn[p].kept.scope, r.shown[1])

Inscope(t, s) == Exists(t) /\ tasks[t].parent = s

\* The edge a transaction is about to insert.
NewEdge(p) ==
  IF Request(p).op = "link" THEN <<Request(p).task, Request(p).other>>
  ELSE <<asks[Request(p).other].pred, asks[Request(p).other].succ>>

Inserts(p) == \/ Request(p).op = "link"
              \/ Request(p).op = "accept" /\ asks[Request(p).other].op = "link"

\* An edge that was found sound stays so until it is inserted, unless its
\* tasks leave; a task that was found free of edges gets none until it moves.
StillSound(p) ==
  Closes(p) =>
    /\ Inserts(p) => LET e == NewEdge(p) s == EdgeScope(p) IN
         /\ Born(e[1]) /\ Born(e[2])
         /\ Inscope(e[1], s) /\ Inscope(e[2], s) =>
              Live(e[1]) /\ Live(e[2]) /\ ~Cyclic(ScopeEdges(s) \cup {e})
    /\ Request(p).op = "move" => LET t == Request(p).task IN
         Deleted(t) \/ (Inscope(t, txn[p].kept) /\ Incident({t}) = {})

ClientInv(p) == /\ TxnOK(p) /\ Claimed(p) /\ (Under(p) => Standing(p))
                /\ SpentOnce(p) /\ Fresh(p) /\ StillSound(p)

\* The tables.
Stored ==
  /\ tasks \in [Tasks -> Row]
  /\ edges \subseteq Tasks \X Tasks /\ disabled \subseteq Tasks \X Tasks
  /\ follows \subseteq Tasks \X Tasks /\ blockers \subseteq Tasks
  /\ graph \in [ScopeIds -> Nat]
  /\ asks \in Seq(AskRow)
  /\ recorded \subseteq 1..prepared /\ prepared \in 0..MaxRequests
  /\ effects \in [(1..MaxRequests) \X ScopeIds -> Nat]

Rooted == \A t \in Existing : tasks[t].parent = Root \/ Exists(tasks[t].parent)

\* No two clients carry the same request, and none is older than its number.
Keys ==
  /\ \A p, q \in Clients : p # q /\ Request(p) # NoRequest => Request(p).key # Request(q).key
  /\ \A k \in 1..MaxRequests, s \in ScopeIds : k > prepared => effects[<<k, s>>] = 0

\* What two transactions hold is compatible.
Compatible ==
  \A p, q \in Clients : p # q => \A a \in txn[p].held, b \in txn[q].held : ~Conflict(a, b)

Inv == /\ Stored /\ Rooted /\ DependenciesAreSound /\ AppliedOnce
       /\ txn = [p \in Clients |-> txn[p]] /\ Keys /\ Compatible
       /\ \A p \in Clients : ClientInv(p)

-----------------------------------------------------------------------------
(* The locks an operation takes are locks, and a list of them is finite.   *)

\* A list of locks, from a list of ids.
LEMMA MappedList ==
  ASSUME NEW S, IsFiniteSet(S), NEW s \in SetToSeqs(S), NEW g \in [S -> Locks]
  PROVE  /\ [i \in DOMAIN s |-> g[s[i]]] \in Seq(Locks)
         /\ Range([i \in DOMAIN s |-> g[s[i]]]) = {g[x] : x \in S}
<1> DEFINE n == Cardinality(S)
           l == [i \in 1..n |-> g[s[i]]]
<1>1. s \in [1..n -> S] /\ n \in Nat /\ {s[i] : i \in 1..n} = S
  BY ListsHaveAll
<1> HIDE DEF n
<1>2. l \in [1..n -> Locks]
  BY <1>1
<1>3. l \in Seq(Locks)
  BY <1>1, <1>2, SeqDef
<1>4. Range(l) = {g[x] : x \in S}
  BY <1>1 DEF Range
<1>5. [i \in DOMAIN s |-> g[s[i]]] = l
  BY <1>1
<1> QED
  BY <1>3, <1>4, <1>5

\* The list of a set of ids has each of them.
LEMMA SortedById ==
  ASSUME NEW S \in SUBSET Nat, IsFiniteSet(S)
  PROVE  Sorted(S, ById) \in SetToSeqs(S)
<1> DEFINE k == [u \in S |-> u]
           Fine(s) == \A i, j \in DOMAIN s :
              i < j => ById(s[i]) < ById(s[j]) \/ (ById(s[i]) = ById(s[j]) /\ s[i] < s[j])
<1>1. PICK s \in SetToSeqs(S) : Ordered(s, k)
  <2>1. k \in [S -> Nat]
    OBVIOUS
  <2> HIDE DEF k
  <2> QED
    BY <2>1, SortedExists
<1>2. \A i \in DOMAIN s : s[i] \in S
  BY ListsHaveAll
<1>3. Fine(s)
  BY <1>1, <1>2 DEF Ordered, ById
<1>4. Sorted(S, ById) = CHOOSE z \in SetToSeqs(S) : Fine(z)
  BY DEF Sorted
<1> HIDE DEF Fine
<1> QED
  BY <1>3, <1>4

\* So has the list of tasks by depth, archiveTask's and deleteTask's lock order.
LEMMA SortedByDepth ==
  ASSUME NEW S \in SUBSET Nat, IsFiniteSet(S), \A t \in S : Depth(t) \in Nat
  PROVE  Sorted(S, Depth) \in SetToSeqs(S)
<1> DEFINE k == [u \in S |-> Depth(u)]
           Fine(s) == \A i, j \in DOMAIN s :
              i < j => Depth(s[i]) < Depth(s[j]) \/ (Depth(s[i]) = Depth(s[j]) /\ s[i] < s[j])
<1>1. PICK s \in SetToSeqs(S) : Ordered(s, k)
  <2>1. k \in [S -> Nat]
    OBVIOUS
  <2> HIDE DEF k
  <2> QED
    BY <2>1, SortedExists
<1>2. \A i \in DOMAIN s : s[i] \in S
  BY ListsHaveAll
<1>3. Fine(s)
  BY <1>1, <1>2 DEF Ordered
<1>4. Sorted(S, Depth) = CHOOSE z \in SetToSeqs(S) : Fine(z)
  BY DEF Sorted
<1> HIDE DEF Fine
<1> QED
  BY <1>3, <1>4

\* What X, N and K make of a row is a lock.
LEMMA LockTypes ==
  /\ Project \in {"project", "task", "scope", "ask"} \X Nat
  /\ \A i \in Nat : {Task(i), Scope(i), Ask(i)} \subseteq {"project", "task", "scope", "ask"} \X Nat
  /\ \A i \in Nat : {X(Task(i)), K(Task(i)), X(Scope(i)), N(Scope(i)), K(Scope(i)), X(Ask(i))} \subseteq Locks
  /\ X(Project) \in Locks /\ K(Project) \in Locks
<1>1. /\ Project \in {"project", "task", "scope", "ask"} \X Nat
      /\ \A i \in Nat : {Task(i), Scope(i), Ask(i)} \subseteq {"project", "task", "scope", "ask"} \X Nat
  BY DEF Project, Task, Scope, Ask, Root
<1>2. \A l \in {"project", "task", "scope", "ask"} \X Nat : {X(l), N(l), K(l)} \subseteq Locks
  BY DEF X, N, K, Locks
<1> QED
  BY <1>1, <1>2

\* Sequences of locks on the rows of a set.
LEMMA ScopesList ==
  ASSUME NEW S \in SUBSET Nat, IsFiniteSet(S)
  PROVE  Scopes(S) \in Seq(Locks) /\ Range(Scopes(S)) = {X(Scope(s)) : s \in S}
<1> DEFINE g == [u \in S |-> X(Scope(u))]
           s == Sorted(S, ById)
<1>1. g \in [S -> Locks]
  BY LockTypes
<1>2. s \in SetToSeqs(S)
  BY SortedById
<1>3. Scopes(S) = [i \in DOMAIN s |-> X(Scope(s[i]))]
  BY DEF Scopes
<1> HIDE DEF s
<1>4. \A i \in DOMAIN s : s[i] \in S
  BY <1>2, ListsHaveAll
<1>5. Scopes(S) = [i \in DOMAIN s |-> g[s[i]]]
  BY <1>3, <1>4
<1>6. {g[u] : u \in S} = {X(Scope(u)) : u \in S}
  OBVIOUS
<1> HIDE DEF g
<1>7. /\ [i \in DOMAIN s |-> g[s[i]]] \in Seq(Locks)
      /\ Range([i \in DOMAIN s |-> g[s[i]]]) = {g[x] : x \in S}
  BY <1>1, <1>2, MappedList, Zenon
<1> QED
  BY <1>5, <1>6, <1>7, Zenon

\* The requests for dependency changes that deleteTask locks.
LEMMA AskList ==
  ASSUME NEW S \in SUBSET Nat, IsFiniteSet(S)
  PROVE  LET s == Sorted(S, ById) IN [i \in DOMAIN s |-> X(Ask(s[i]))] \in Seq(Locks)
<1> DEFINE g == [u \in S |-> X(Ask(u))]
           s == Sorted(S, ById)
<1>1. g \in [S -> Locks]
  BY LockTypes
<1>2. s \in SetToSeqs(S)
  BY SortedById
<1> HIDE DEF s
<1>3. \A i \in DOMAIN s : s[i] \in S
  BY <1>2, ListsHaveAll
<1>4. [i \in DOMAIN s |-> X(Ask(s[i]))] = [i \in DOMAIN s |-> g[s[i]]]
  BY <1>3
<1> HIDE DEF g
<1>5. /\ [i \in DOMAIN s |-> g[s[i]]] \in Seq(Locks)
      /\ Range([i \in DOMAIN s |-> g[s[i]]]) = {g[x] : x \in S}
  BY <1>1, <1>2, MappedList, Zenon
<1>6. [i \in DOMAIN s |-> X(Ask(s[i]))] \in Seq(Locks)
  BY <1>4, <1>5, Zenon
<1> QED
  BY <1>6 DEF s

\* The scopes an archive updates.
LEMMA ScopeUpdateList ==
  ASSUME NEW S \in SUBSET Nat, IsFiniteSet(S)
  PROVE  LET s == Sorted(S, ById) l == [i \in DOMAIN s |-> N(Scope(s[i]))] IN
         l \in Seq(Locks) /\ Range(l) = {N(Scope(u)) : u \in S}
<1> DEFINE g == [u \in S |-> N(Scope(u))]
           s == Sorted(S, ById)
           l == [i \in DOMAIN s |-> N(Scope(s[i]))]
<1>1. g \in [S -> Locks]
  BY LockTypes
<1>2. s \in SetToSeqs(S)
  BY SortedById
<1> HIDE DEF s
<1>3. \A i \in DOMAIN s : s[i] \in S
  BY <1>2, ListsHaveAll
<1>4. l = [i \in DOMAIN s |-> g[s[i]]]
  BY <1>3
<1>5. {g[u] : u \in S} = {N(Scope(u)) : u \in S}
  OBVIOUS
<1> HIDE DEF g, l
<1>6. /\ [i \in DOMAIN s |-> g[s[i]]] \in Seq(Locks)
      /\ Range([i \in DOMAIN s |-> g[s[i]]]) = {g[x] : x \in S}
  BY <1>1, <1>2, MappedList, Zenon
<1>7. l \in Seq(Locks) /\ Range(l) = {N(Scope(u)) : u \in S}
  BY <1>4, <1>5, <1>6, Zenon
<1> QED
  BY <1>7 DEF s, l

\* The rows of a set of tasks, in the order of ids.
LEMMA RowsById ==
  ASSUME NEW S \in SUBSET Nat, IsFiniteSet(S)
  PROVE  Rows(S, ById) \in Seq(Locks)
<1> DEFINE g == [u \in S |-> X(Task(u))]
           s == Sorted(S, ById)
<1>1. g \in [S -> Locks]
  BY LockTypes
<1>2. s \in SetToSeqs(S)
  BY SortedById
<1>3. Rows(S, ById) = [i \in DOMAIN s |-> X(Task(s[i]))]
  BY DEF Rows
<1> HIDE DEF s
<1>4. \A i \in DOMAIN s : s[i] \in S
  BY <1>2, ListsHaveAll
<1>5. Rows(S, ById) = [i \in DOMAIN s |-> g[s[i]]]
  BY <1>3, <1>4
<1> HIDE DEF g
<1>6. /\ [i \in DOMAIN s |-> g[s[i]]] \in Seq(Locks)
      /\ Range([i \in DOMAIN s |-> g[s[i]]]) = {g[x] : x \in S}
  BY <1>1, <1>2, MappedList, Zenon
<1> QED
  BY <1>5, <1>6, Zenon

\* The rows of a set of tasks, by depth.
LEMMA RowsByDepth ==
  ASSUME NEW S \in SUBSET Nat, IsFiniteSet(S), \A t \in S : Depth(t) \in Nat
  PROVE  Rows(S, Depth) \in Seq(Locks)
<1> DEFINE g == [u \in S |-> X(Task(u))]
           s == Sorted(S, Depth)
<1>1. g \in [S -> Locks]
  BY LockTypes
<1>2. s \in SetToSeqs(S)
  BY SortedByDepth
<1>3. Rows(S, Depth) = [i \in DOMAIN s |-> X(Task(s[i]))]
  BY DEF Rows
<1> HIDE DEF s
<1>4. \A i \in DOMAIN s : s[i] \in S
  BY <1>2, ListsHaveAll
<1>5. Rows(S, Depth) = [i \in DOMAIN s |-> g[s[i]]]
  BY <1>3, <1>4
<1> HIDE DEF g
<1>6. /\ [i \in DOMAIN s |-> g[s[i]]] \in Seq(Locks)
      /\ Range([i \in DOMAIN s |-> g[s[i]]]) = {g[x] : x \in S}
  BY <1>1, <1>2, MappedList, Zenon
<1> QED
  BY <1>5, <1>6, Zenon

-----------------------------------------------------------------------------
(* The tree, and the locks of a transaction.                               *)

\* Tasks and scopes are finite sets of numbers, and so are sets of edges.
LEMMA FiniteTasks ==
  /\ IsFiniteSet(Tasks) /\ Tasks \subseteq Nat /\ Root \notin Tasks
  /\ IsFiniteSet(Tasks \cup {Root}) /\ Tasks \cup {Root} \subseteq Nat
  /\ \A S \in SUBSET (Tasks \cup {Root}) : IsFiniteSet(S) /\ Cardinality(S) \in Nat
  /\ \A E \in SUBSET (Tasks \X Tasks) : IsFiniteSet(E) /\ Cardinality(E) \in Nat
<1>1. IsFiniteSet(Tasks) /\ Tasks \subseteq Nat /\ Root \notin Tasks /\ Root \in Nat
  BY IdsAssumption DEF Root
<1>2. IsFiniteSet(Tasks \cup {Root})
  BY <1>1, FS_AddElement
<1>3. IsFiniteSet(Tasks \X Tasks)
  BY <1>1, FS_Product
<1> QED
  BY <1>1, <1>2, <1>3, FS_Subset, FS_CardinalityType

\* A subtree has its root, and only tasks that are there when its root is.
LEMMA SubtreeBounds ==
  ASSUME tasks \in [Tasks -> Row], NEW t \in Tasks
  PROVE  /\ t \in Subtree(t) /\ Subtree(t) \subseteq Tasks
         /\ Exists(t) => Subtree(t) \subseteq Existing
<1>1. \A e \in ParentOf : e[2] \in Existing /\ e[2] \in Tasks
  BY DEF ParentOf, Existing
<1>2. {t} \subseteq Subtree(t) /\ Subtree(t) \subseteq Tasks
  BY <1>1, ReachBounds DEF Subtree
<1>3. ASSUME Exists(t) PROVE Subtree(t) \subseteq Existing
  <2>1. {t} \subseteq Existing
    BY <1>3 DEF Existing
  <2> QED
    BY <1>1, <2>1, ReachBounds DEF Subtree
<1> QED
  BY <1>2, <1>3

\* The completed successors of a task are tasks, itself among them.
LEMMA ClosureBounds ==
  ASSUME edges \subseteq Tasks \X Tasks, NEW t \in Tasks
  PROVE  t \in CompletedClosure(t) /\ CompletedClosure(t) \subseteq Tasks
<1> DEFINE R == {e \in edges : Live(e[2]) /\ Done(e[2])}
<1>1. \A e \in R : e[2] \in Tasks
  OBVIOUS
<1>2. CompletedClosure(t) = Reach(R, {t})
  BY DEF CompletedClosure
<1> HIDE DEF R
<1> QED
  BY <1>1, <1>2, ReachBounds

\* A depth is a number.
LEMMA DepthType ==
  ASSUME tasks \in [Tasks -> Row], NEW t \in Tasks
  PROVE  Depth(t) \in Nat
<1>1. \A e \in ChildOf : e[2] \in Tasks \cup {Root}
  BY DEF ChildOf, Existing, Row
<1>2. tasks[t].parent \in Tasks \cup {Root}
  BY DEF Row
<1> DEFINE C == Tasks \cup {Root}
<1>3. Reach(ChildOf, {tasks[t].parent}) \subseteq C
  <2>1. \A e \in ChildOf : e[1] \in C => e[2] \in C
    BY <1>1
  <2>2. {tasks[t].parent} \subseteq C
    BY <1>2
  <2> HIDE DEF C
  <2> QED
    BY <2>1, <2>2, ReachBounds
<1>4. Ancestors(t) \in SUBSET (Tasks \cup {Root})
  BY <1>3 DEF Ancestors
<1> QED
  BY <1>4, FiniteTasks DEF Depth

\* Lists of one, two and three locks.
LEMMA OneLock ==
  ASSUME NEW a \in Locks
  PROVE  <<a>> \in Seq(Locks) /\ Range(<<a>>) = {a}
BY DEF Range

\* As above.
LEMMA TwoLocks ==
  ASSUME NEW a \in Locks, NEW b \in Locks
  PROVE  <<a, b>> \in Seq(Locks) /\ Range(<<a, b>>) = {a, b}
BY DEF Range

\* As above.
LEMMA ThreeLocks ==
  ASSUME NEW a \in Locks, NEW b \in Locks, NEW c \in Locks
  PROVE  <<a, b, c>> \in Seq(Locks) /\ Range(<<a, b, c>>) = {a, b, c}
BY DEF Range

\* A list of locks with one more.
LEMMA Appended ==
  ASSUME NEW s \in Seq(Locks), NEW a \in Locks
  PROVE  s \o <<a>> \in Seq(Locks) /\ Range(s) \cup {a} \subseteq Range(s \o <<a>>)
<1> DEFINE z == s \o <<a>>
<1>1. <<a>> \in Seq(Locks) /\ Len(<<a>>) = 1 /\ <<a>>[1] = a
  OBVIOUS
<1>2. /\ z \in Seq(Locks) /\ Len(z) = Len(s) + 1
      /\ \A i \in 1 .. Len(s) + 1 : z[i] = IF i <= Len(s) THEN s[i] ELSE <<a>>[i - Len(s)]
  BY <1>1, ConcatProperties
<1>3. Len(s) \in Nat /\ DOMAIN s = 1..Len(s) /\ DOMAIN z = 1..Len(z)
  BY <1>2, LenProperties
<1> HIDE DEF z
<1>4. z[Len(s) + 1] = a /\ Len(s) + 1 \in DOMAIN z
  BY <1>1, <1>2, <1>3
<1>5. \A i \in DOMAIN s : z[i] = s[i] /\ i \in DOMAIN z
  BY <1>2, <1>3
<1>6. Range(s) \cup {a} \subseteq Range(z)
  BY <1>4, <1>5 DEF Range
<1> QED
  BY <1>2, <1>6 DEF z

\* The empty list has no lock.
LEMMA NoLock == <<>> \in Seq(Locks) /\ Range(<<>>) = {}
BY DEF Range

\* What the tables' types say of tasks, scopes and requests.
LEMMA StoredFacts ==
  ASSUME Stored
  PROVE  /\ tasks \in [Tasks -> Row] /\ edges \subseteq Tasks \X Tasks
         /\ graph \in [Tasks \cup {Root} -> Nat]
         /\ Len(asks) \in Nat /\ DOMAIN asks = 1..Len(asks) /\ asks \in [DOMAIN asks -> AskRow]
         /\ \A t \in Tasks : tasks[t].parent \in Tasks \cup {Root}
         /\ \A q \in DOMAIN asks : /\ asks[q].pred \in Tasks /\ asks[q].succ \in Tasks
                                   /\ asks[q].scope \in Tasks \cup {Root}
<1>1. tasks \in [Tasks -> Row] /\ edges \subseteq Tasks \X Tasks
      /\ graph \in [Tasks \cup {Root} -> Nat] /\ asks \in Seq(AskRow)
  BY DEF Stored, ScopeIds
<1>2. Len(asks) \in Nat /\ DOMAIN asks = 1..Len(asks) /\ asks \in [DOMAIN asks -> AskRow]
  BY <1>1, LenProperties
<1> QED
  BY <1>1, <1>2 DEF Row, AskRow, ScopeIds

\* What a handler locks before it reads; the project's row, if it opens with it.
LEMMA OpeningLocks ==
  ASSUME NEW r, r.op # "create" => r.task \in Nat, r.op \in Answers => r.other \in Nat
  PROVE  /\ Opening(r) \in Seq(Locks)
         /\ r.op \in OpensProject => Range(Opening(r)) = {X(Project)}
<1>1. X(Project) \in Locks
  BY LockTypes
<1>4. CASE r.op \in OpensProject
  BY <1>1, <1>4, OneLock DEF Opening
<1>5. CASE r.op \notin OpensProject /\ r.op \in Edits \cup {"complete"}
  <2>1. r.task \in Nat
    BY <1>5 DEF Edits, Blocks
  <2>2. Opening(r) = <<X(Task(r.task))>>
    BY <1>5 DEF Opening
  <2>3. X(Task(r.task)) \in Locks
    BY <2>1, LockTypes
  <2> QED
    BY <1>5, <2>2, <2>3, OneLock
<1>6. CASE r.op \notin OpensProject /\ r.op \notin Edits \cup {"complete"} /\ r.op \in Answers
  <2>1. Opening(r) = <<X(Ask(r.other))>>
    BY <1>6 DEF Opening
  <2>2. X(Ask(r.other)) \in Locks
    BY <1>6, LockTypes
  <2> QED
    BY <1>6, <2>1, <2>2, OneLock
<1>7. CASE r.op \notin OpensProject /\ r.op \notin Edits \cup {"complete"} /\ r.op \notin Answers
  BY <1>7, NoLock DEF Opening
<1> QED
  BY <1>4, <1>5, <1>6, <1>7

\* What it locks after reading: for links and answers the scope, for a move both
\* scopes and the task.
LEMMA WorkingLocks ==
  ASSUME Stored, NEW r, RequestOK(r)
  PROVE  /\ Working(r) \in Seq(Locks)
         /\ r.op \in Links => X(Scope(tasks[r.task].parent)) \in Range(Working(r))
         /\ r.op \in Answers => X(Scope(asks[r.other].scope)) \in Range(Working(r))
         /\ r.op = "move" => {X(Scope(tasks[r.task].parent)), X(Scope(r.other)), X(Task(r.task))}
                              \subseteq Range(Working(r))
<1> USE DEF Edits, Blocks, Links, Answers, Follows, Destructions
<1> DEFINE above == tasks[r.task].parent
<1>1. r.op \in Ops
  BY DEF RequestOK, ScopeIds
<1>2. r.op # "create" => r.task \in Tasks /\ r.task \in Nat /\ above \in Tasks \cup {Root} /\ above \in Nat
  BY StoredFacts, FiniteTasks DEF RequestOK, ScopeIds
<1>3. CASE r.op \in Edits \cup {"create"}
  <2>1. Working(r) = <<>>
    BY <1>3 DEF Working
  <2> QED
    BY <1>3, <2>1, NoLock
<1>4. CASE r.op \in Follows
  <2>1. Working(r) = Rows({r.task, r.other}, ById)
    BY <1>4 DEF Working
  <2>2. {r.task, r.other} \in SUBSET (Tasks \cup {Root})
    BY <1>4 DEF RequestOK, ScopeIds
  <2>3. {r.task, r.other} \in SUBSET Nat /\ IsFiniteSet({r.task, r.other})
    BY <2>2, FiniteTasks
  <2> QED
    BY <1>4, <2>1, <2>3, RowsById
<1>5. CASE r.op \in Links
  <2>1. Working(r) = <<X(Scope(above))>>
    BY <1>5 DEF Working
  <2>2. X(Scope(above)) \in Locks
    BY <1>2, <1>5, LockTypes
  <2> QED
    BY <1>5, <2>1, <2>2, OneLock
<1>6. CASE r.op \in Answers
  <2>1. Working(r) = <<X(Scope(asks[r.other].scope))>>
    BY <1>6 DEF Working
  <2>2. asks[r.other].scope \in Nat
    BY <1>6, StoredFacts, FiniteTasks DEF RequestOK, ScopeIds
  <2>3. X(Scope(asks[r.other].scope)) \in Locks
    BY <2>2, LockTypes
  <2> QED
    BY <1>6, <2>1, <2>3, OneLock
<1>7. CASE r.op = "move"
  <2> DEFINE S == {above, r.other}
  <2>1. Working(r) = Scopes(S) \o <<X(Task(r.task))>>
    BY <1>7 DEF Working, MoveLocks
  <2>2. S \in SUBSET (Tasks \cup {Root})
    BY <1>2, <1>7 DEF RequestOK, ScopeIds
  <2>3. S \in SUBSET Nat /\ IsFiniteSet(S)
    BY <2>2, FiniteTasks
  <2>4. Scopes(S) \in Seq(Locks) /\ Range(Scopes(S)) = {X(Scope(s)) : s \in S}
    <3> HIDE DEF S
    <3> QED
      BY <2>3, ScopesList
  <2>5. X(Task(r.task)) \in Locks
    BY <1>2, <1>7, LockTypes
  <2> HIDE DEF S
  <2>6. /\ Scopes(S) \o <<X(Task(r.task))>> \in Seq(Locks)
        /\ Range(Scopes(S)) \cup {X(Task(r.task))} \subseteq Range(Scopes(S) \o <<X(Task(r.task))>>)
    <3> DEFINE l == Scopes(S)
               a == X(Task(r.task))
    <3>1. l \in Seq(Locks) /\ a \in Locks
      BY <2>4, <2>5
    <3> HIDE DEF l, a
    <3>2. l \o <<a>> \in Seq(Locks) /\ Range(l) \cup {a} \subseteq Range(l \o <<a>>)
      BY <3>1, Appended
    <3> QED
      BY <3>2 DEF l, a
  <2>7. {X(Scope(above)), X(Scope(r.other))} \subseteq Range(Scopes(S))
    BY <2>4 DEF S
  <2> QED
    BY <1>7, <2>1, <2>6, <2>7
<1>8. CASE r.op = "complete"
  <2>1. Working(r) = Scopes({above, r.task})
    BY <1>8 DEF Working, CompleteLocks
  <2>2. {above, r.task} \in SUBSET Nat /\ IsFiniteSet({above, r.task})
    <3>1. {above, r.task} \in SUBSET (Tasks \cup {Root})
      BY <1>2, <1>8
    <3> QED
      BY <3>1, FiniteTasks
  <2> QED
    BY <1>8, <2>1, <2>2, ScopesList
<1>9. CASE r.op = "reopen"
  <2>1. Working(r) = Rows(CompletedClosure(r.task), ById)
    BY <1>9 DEF Working, ReopenLocks
  <2>2. CompletedClosure(r.task) \in SUBSET Tasks
    BY <1>2, <1>9, ClosureBounds, StoredFacts
  <2>3. CompletedClosure(r.task) \in SUBSET Nat /\ IsFiniteSet(CompletedClosure(r.task))
    BY <2>2, FiniteTasks, FS_Subset
  <2> QED
    BY <1>9, <2>1, <2>3, RowsById
<1>10. CASE r.op = "own"
  <2> DEFINE S == Subtree(r.task) \ {r.task}
  <2>1. Working(r) = <<X(Task(r.task))>> \o Rows(S, ById)
    BY <1>10 DEF Working, OwnLocks
  <2>2. S \in SUBSET Tasks
    BY <1>2, <1>10, SubtreeBounds, StoredFacts
  <2>3. S \in SUBSET Nat /\ IsFiniteSet(S)
    BY <2>2, FiniteTasks, FS_Subset
  <2>4. Rows(S, ById) \in Seq(Locks)
    <3> HIDE DEF S
    <3> QED
      BY <2>3, RowsById
  <2>5. X(Task(r.task)) \in Locks
    BY <1>2, <1>10, LockTypes
  <2> HIDE DEF S
  <2> QED
    BY <1>10, <2>1, <2>4, <2>5, OneLock, ConcatProperties
<1>11. CASE r.op \in Destructions
  <2> DEFINE S == Subtree(r.task)
  <2>1. Working(r) = Rows(S, Depth) \o <<X(Scope(above))>>
    BY <1>11 DEF Working, SubtreeLocks
  <2>2. S \in SUBSET Tasks
    BY <1>2, <1>11, SubtreeBounds, StoredFacts
  <2>3. S \in SUBSET Nat /\ IsFiniteSet(S) /\ \A t \in S : Depth(t) \in Nat
    BY <2>2, FiniteTasks, FS_Subset, DepthType, StoredFacts
  <2>4. Rows(S, Depth) \in Seq(Locks)
    <3> HIDE DEF S
    <3> QED
      BY <2>3, RowsByDepth
  <2>5. X(Scope(above)) \in Locks
    BY <1>2, <1>11, LockTypes
  <2> HIDE DEF S
  <2> QED
    BY <1>11, <2>1, <2>4, <2>5, OneLock, ConcatProperties
<1> QED
  BY <1>1, <1>3, <1>4, <1>5, <1>6, <1>7, <1>8, <1>9, <1>10, <1>11 DEF Ops

\* The rows an inserted dependency names.
LEMMA EdgeWriteLocks ==
  ASSUME NEW a \in Tasks, NEW b \in Tasks
  PROVE  EdgeWrites(a, b) \in Seq(Locks) /\ K(Project) \in Range(EdgeWrites(a, b))
<1>1. K(Project) \in Locks /\ K(Task(a)) \in Locks /\ K(Task(b)) \in Locks
  BY LockTypes, FiniteTasks
<1>2. /\ EdgeWrites(a, b) \in Seq(Locks)
      /\ Range(EdgeWrites(a, b)) = {K(Project), K(Task(a)), K(Task(b))}
  BY <1>1, ThreeLocks DEF EdgeWrites
<1> QED
  BY <1>2

\* The scopes of all tasks of an archived subtree.
LEMMA ArchiveWriteLocks ==
  ASSUME Stored, NEW r, r.task \in Tasks
  PROVE  /\ ArchiveWrites(r) \in Seq(Locks)
         /\ \A u \in Subtree(r.task) : N(Scope(tasks[u].parent)) \in Range(ArchiveWrites(r))
<1> DEFINE above == {tasks[u].parent : u \in Subtree(r.task)}
           s == Sorted(above, ById)
           l == [i \in DOMAIN s |-> N(Scope(s[i]))]
<1>1. Subtree(r.task) \subseteq Tasks
  BY SubtreeBounds, StoredFacts
<1>2. above \in SUBSET (Tasks \cup {Root})
  BY <1>1, StoredFacts
<1>3. above \in SUBSET Nat /\ IsFiniteSet(above)
  BY <1>2, FiniteTasks
<1>4. l \in Seq(Locks) /\ Range(l) = {N(Scope(u)) : u \in above}
  <2> HIDE DEF above
  <2> QED
    BY <1>3, ScopeUpdateList
<1>5. ArchiveWrites(r) = l
  BY DEF ArchiveWrites
<1> HIDE DEF l
<1> QED
  BY <1>4, <1>5

\* The requests and scopes that go with a deleted subtree.
LEMMA DeleteWriteLocks ==
  ASSUME Stored, NEW r, r.task \in Tasks
  PROVE  DeleteWrites(r) \in Seq(Locks)
<1> DEFINE S == Subtree(r.task)
           touched == {q \in DOMAIN asks : {asks[q].pred, asks[q].succ} \cap S # {}}
           mine == Sorted(touched, ById)
           l == [i \in DOMAIN mine |-> X(Ask(mine[i]))]
<1>1. S \in SUBSET Nat /\ IsFiniteSet(S)
  BY SubtreeBounds, StoredFacts, FiniteTasks, FS_Subset
<1>2. touched \in SUBSET (1..Len(asks)) /\ Len(asks) \in Nat
  BY StoredFacts
<1>3. touched \in SUBSET Nat /\ IsFiniteSet(touched)
  <2>1. IsFiniteSet(1..Len(asks)) /\ 1..Len(asks) \subseteq Nat
    BY <1>2, FS_Interval
  <2> HIDE DEF touched
  <2> QED
    BY <1>2, <2>1, FS_Subset
<1>4. l \in Seq(Locks)
  <2> HIDE DEF touched
  <2> QED
    BY <1>3, AskList
<1>5. Scopes(S) \in Seq(Locks)
  <2> HIDE DEF S
  <2> QED
    BY <1>1, ScopesList
<1>6. DeleteWrites(r) = l \o Scopes(S)
  BY DEF DeleteWrites
<1> HIDE DEF l, S
<1> QED
  BY <1>4, <1>5, <1>6, ConcatProperties

\* Whoever did not open with the project's row takes a share in it to write.
LEMMA ClosingLocks ==
  ASSUME Stored, NEW r, RequestOK(r)
  PROVE  /\ Closing(r) \in Seq(Locks)
         /\ r.op \notin OpensProject => K(Project) \in Range(Closing(r))
         /\ r.op = "archive" =>
              \A u \in Subtree(r.task) : N(Scope(tasks[u].parent)) \in Range(Closing(r))
<1> USE DEF Edits, Blocks, Links, Answers, Follows, Destructions
<1>1. r.op \in Ops
  BY DEF RequestOK, ScopeIds
<1>2. K(Project) \in Locks /\ Range(<<K(Project)>>) = {K(Project)} /\ <<K(Project)>> \in Seq(Locks)
  BY LockTypes, OneLock
<1>3. CASE r.op = "create"
  <2>1. r.task \in Nat /\ K(Scope(r.task)) \in Locks /\ K(Task(r.task)) \in Locks
    BY LockTypes, FiniteTasks DEF RequestOK, ScopeIds
  <2>2. Closing(r) = IF r.task = Root THEN <<K(Scope(r.task))>>
                     ELSE <<K(Scope(r.task)), K(Task(r.task))>>
    BY <1>3 DEF Closing
  <2>3. Closing(r) \in Seq(Locks)
    BY <2>1, <2>2, OneLock, TwoLocks
  <2> QED
    BY <1>3, <2>3 DEF OpensProject
<1>4. CASE r.op \in Links
  <2>1. r.task \in Tasks /\ r.other \in Tasks
    BY <1>4 DEF RequestOK, ScopeIds
  <2>2. Closing(r) = IF r.op = "unlink" /\ LinksDirectly(r) THEN <<K(Project)>>
                     ELSE EdgeWrites(r.task, r.other)
    BY <1>4 DEF Closing
  <2> QED
    BY <1>2, <1>4, <2>1, <2>2, EdgeWriteLocks
<1>5. CASE r.op = "accept" /\ asks[r.other].op = "link"
  <2>1. asks[r.other].pred \in Tasks /\ asks[r.other].succ \in Tasks
    BY <1>5, StoredFacts DEF RequestOK, ScopeIds
  <2>2. Closing(r) = EdgeWrites(asks[r.other].pred, asks[r.other].succ)
    BY <1>5 DEF Closing
  <2> QED
    BY <1>5, <2>1, <2>2, EdgeWriteLocks
<1>6. CASE r.op = "move" /\ r.other # Root
  <2>1. K(Task(r.other)) \in Locks
    BY <1>6, LockTypes, FiniteTasks DEF RequestOK, ScopeIds
  <2>2. Closing(r) = <<K(Project), K(Task(r.other))>>
    BY <1>6 DEF Closing
  <2>3. Closing(r) \in Seq(Locks) /\ Range(Closing(r)) = {K(Project), K(Task(r.other))}
    BY <1>2, <2>1, <2>2, TwoLocks
  <2> QED
    BY <1>6, <2>3
<1>7. CASE r.op = "archive"
  <2>1. Closing(r) = ArchiveWrites(r)
    BY <1>7 DEF Closing
  <2>2. r.task \in Tasks
    BY <1>7 DEF RequestOK, ScopeIds
  <2> QED
    BY <1>7, <2>1, <2>2, ArchiveWriteLocks DEF OpensProject
<1>8. CASE r.op = "delete"
  <2>1. Closing(r) = DeleteWrites(r)
    BY <1>8 DEF Closing
  <2>2. r.task \in Tasks
    BY <1>8 DEF RequestOK, ScopeIds
  <2> QED
    BY <1>8, <2>1, <2>2, DeleteWriteLocks DEF OpensProject
<1>9. CASE r.op \in {"reopen", "own"}
  <2>1. Closing(r) = <<>>
    BY <1>9 DEF Closing
  <2> QED
    BY <1>9, <2>1, NoLock DEF OpensProject
<1>10. CASE \/ r.op \in Edits \cup Follows \cup {"reject", "complete"}
            \/ r.op = "accept" /\ asks[r.other].op # "link"
            \/ r.op = "move" /\ r.other = Root
  <2>1. Closing(r) = <<K(Project)>>
    BY <1>10 DEF Closing
  <2>2. r.op # "archive"
    BY <1>10
  <2> QED
    BY <1>2, <2>1, <2>2
<1> QED
  BY <1>1, <1>3, <1>4, <1>5, <1>6, <1>7, <1>8, <1>9, <1>10 DEF Ops

-----------------------------------------------------------------------------
(* What a step of one client guarantees, and what the others rely on.      *)

TasksAdvance ==
  \A t \in Tasks : Born(t) =>
    /\ Born(t)' /\ (Deleted(t) => Deleted(t)')
    /\ Deleted(t)' \/ tasks'[t].version >= tasks[t].version

ScopesAdvance ==
  \A s \in ScopeIds : (s # Root /\ Deleted(s)') \/ graph'[s] >= graph[s]

AsksAdvance ==
  /\ DOMAIN asks \subseteq DOMAIN asks'
  /\ \A k \in DOMAIN asks :
       /\ asks'[k].op = asks[k].op /\ asks'[k].scope = asks[k].scope
       /\ asks'[k].pred = asks[k].pred /\ asks'[k].succ = asks[k].succ
       /\ asks[k].status # "pending" => asks'[k].status # "pending"

Counted(p) ==
  /\ prepared <= prepared' /\ recorded \subseteq recorded'
  /\ \A k \in 1..MaxRequests, s \in ScopeIds :
       k # Request(p).key => effects'[<<k, s>>] = effects[<<k, s>>]

\* Nothing joins the scope s, and who stays is alive if it was.
Undisturbed(s) ==
  /\ ScopeEdges(s)' \subseteq ScopeEdges(s)
  /\ \A t \in Tasks : Born(t) /\ Inscope(t, s)' =>
       Inscope(t, s) /\ tasks'[t].life = tasks[t].life

Unmoved(t, s) ==
  Inscope(t, s) /\ Incident({t}) = {} =>
    Deleted(t)' \/ (Inscope(t, s)' /\ Incident({t})' = {})

Holds(p, l) == \E a \in txn[p].held : a.lock = l

Guarantee(p) ==
  /\ Stored' /\ TasksAdvance /\ ScopesAdvance /\ AsksAdvance /\ Counted(p)
  /\ tasks' # tasks => Holds(p, Project)
  /\ \A s \in ScopeIds : Undisturbed(s) \/ Holds(p, Scope(s))
  /\ \A t \in Tasks, s \in ScopeIds :
       Unmoved(t, s) \/ Holds(p, Scope(s)) \/ Holds(p, Task(t))

\* Who has a row FOR UPDATE has it alone.
LEMMA Excludes ==
  ASSUME Compatible, NEW p \in Clients, NEW q \in Clients, p # q,
         NEW l, X(l) \in txn[q].held
  PROVE  ~Holds(p, l)
<1> SUFFICES ASSUME NEW a \in txn[p].held, a.lock = l PROVE FALSE
  BY DEF Holds
<1>1. ~Conflict(a, X(l))
  BY DEF Compatible
<1>2. X(l).lock = l /\ X(l).mode = "X"
  BY DEF X
<1>3. {a.mode, "X"} # {"K"} /\ {a.mode, "X"} # {"K", "N"}
  OBVIOUS
<1> QED
  BY <1>1, <1>2, <1>3 DEF Conflict

\* The tree is a function of the tasks.
LEMMA SameTree ==
  ASSUME tasks' = tasks, NEW t
  PROVE  /\ Exists(t)' = Exists(t) /\ Subtree(t)' = Subtree(t)
         /\ Versions(Subtree(t))' = Versions(Subtree(t))
         /\ Deleted(t)' = Deleted(t) /\ Born(t)' = Born(t)
BY DEF Exists, Subtree, Versions, ParentOf, Existing, Deleted, Born

\* A request stays one a client can have made.
LEMMA RequestStays ==
  ASSUME Stored, Stored', TasksAdvance, AsksAdvance, prepared <= prepared',
         NEW r, RequestOK(r)
  PROVE  RequestOK(r)'
<1>1. r.key \in 1..prepared'
  BY DEF Stored, RequestOK
<1>2. r.task # Root => Born(r.task)'
  BY DEF RequestOK, TasksAdvance, ScopeIds
<1>3. r.op \in Answers => r.other \in DOMAIN asks'
  BY DEF RequestOK, AsksAdvance
<1> QED
  BY <1>1, <1>2, <1>3 DEF RequestOK

\* A version reached or passed stays so.
LEMMA ReachedStays ==
  ASSUME Stored, Stored', TasksAdvance, NEW t \in Tasks, Born(t), NEW v
  PROVE  /\ Reached(t, v) => Reached(t, v)'
         /\ Passed(t, v) => Passed(t, v)'
<1>1. tasks[t].version \in Nat /\ tasks'[t].version \in Nat
  BY DEF Stored, Row
<1>2. Deleted(t) \/ Deleted(t)' \/ tasks'[t].version >= tasks[t].version
  BY DEF TasksAdvance
<1>3. Deleted(t) => Deleted(t)'
  BY DEF TasksAdvance
<1> QED
  BY <1>1, <1>2, <1>3 DEF Reached, Passed

\* A graph version reached or passed stays so.
LEMMA ScopeReachedStays ==
  ASSUME Stored, Stored', TasksAdvance, ScopesAdvance, NEW s \in ScopeIds, NEW v
  PROVE  /\ ScopeReached(s, v) => ScopeReached(s, v)'
         /\ ScopePassed(s, v) => ScopePassed(s, v)'
<1>1. graph[s] \in Nat /\ graph'[s] \in Nat
  BY DEF Stored
<1>2. (s # Root /\ Deleted(s)') \/ graph'[s] >= graph[s]
  BY DEF ScopesAdvance
<1>3. s # Root /\ Deleted(s) => Deleted(s)'
  BY DEF TasksAdvance, Deleted, Born, ScopeIds
<1> QED
  BY <1>1, <1>2, <1>3 DEF ScopeReached, ScopePassed

\* A request that is refused is refused from then on.
LEMMA SpentStays ==
  ASSUME Stored, Stored', TasksAdvance, ScopesAdvance, AsksAdvance, recorded \subseteq recorded',
         NEW r, RequestOK(r), NEW s \in ScopeIds, Spent(r, s)
  PROVE  Spent(r, s)'
<1>1. r.op \in Edits \cup Versioned => r.task \in Tasks /\ Born(r.task)
  BY DEF RequestOK, ScopeIds, Edits, Blocks, Versioned, Destructions
<1>2. r.op \in Edits => Passed(r.task, r.shown[1])'
  BY <1>1, ReachedStays DEF Spent
<1>3. r.op \in Versioned => Passed(r.task, r.shown[2])'
  BY <1>1, ReachedStays DEF Spent
<1>4. r.op \in Links => ScopePassed(s, r.shown[1])'
  BY ScopeReachedStays DEF Spent
<1>5. r.op \in Answers => asks'[r.other].status # "pending"
  BY DEF Spent, RequestOK, AsksAdvance
<1> QED
  BY <1>2, <1>3, <1>4, <1>5 DEF Spent

-----------------------------------------------------------------------------
(* The others' steps, as a client that does nothing sees them.             *)

\* A step of p leaves q's transaction well formed,
LEMMA OthersTxn ==
  ASSUME Stored, NEW p \in Clients, Guarantee(p), NEW q \in Clients,
         txn'[q] = txn[q], TxnOK(q)
  PROVE  TxnOK(q)'
<1>1. Request(q) # NoRequest => RequestOK(txn[q].request)'
  <2> SUFFICES ASSUME Request(q) # NoRequest PROVE RequestOK(txn[q].request)'
    OBVIOUS
  <2>1. PICK r : r = txn[q].request
    OBVIOUS
  <2>2. RequestOK(r)
    BY <2>1 DEF TxnOK, Request
  <2>3. RequestOK(r)'
    BY <2>2, RequestStays DEF Guarantee, Counted
  <2>4. r = txn'[q].request
    BY <2>1
  <2> QED
    BY <2>3, <2>4 DEF RequestOK, Born
<1> QED
  BY <1>1 DEF TxnOK, Request

\* leaves the locks it rests on and what it keeps as they are,
LEMMA OthersClaim ==
  ASSUME Inv, NEW p \in Clients, Guarantee(p), NEW q \in Clients, p # q,
         txn'[q] = txn[q]
  PROVE  Claimed(q)' /\ (Under(q)' => Standing(q)')
<1>1. TxnOK(q) /\ Claimed(q) /\ (Under(q) => Standing(q))
  BY DEF Inv, ClientInv
<1>2. Under(q) /\ Request(q).op \in OpensProject => tasks' = tasks
  <2> SUFFICES ASSUME Under(q), Request(q).op \in OpensProject PROVE tasks' = tasks
    OBVIOUS
  <2>1. X(Project) \in txn[q].held
    BY <1>1 DEF Claimed
  <2>2. ~Holds(p, Project)
    BY <2>1, Excludes DEF Inv
  <2> QED
    BY <2>2 DEF Guarantee
<1>3. EdgeScope(q)' = EdgeScope(q) \/ ~Under(q)
  <2>1. Under(q) /\ Request(q).op \in Answers => Request(q).other \in DOMAIN asks
    BY <1>1 DEF TxnOK, Under, RequestOK, Request
  <2> QED
    BY <2>1 DEF EdgeScope, Guarantee, AsksAdvance, Request
<1>4. Guards(q)' = Guards(q) \/ ~Under(q)
  BY <1>3 DEF Guards, Request
<1>5. Claimed(q)'
  <2>1. Closes(q) /\ Request(q).op = "archive" => tasks' = tasks
    BY <1>2 DEF Closes, Under, OpensProject, Destructions
  <2> QED
    BY <1>1, <1>4, <2>1 DEF Claimed, Claims, Closes, Under, Request
<1>6. ASSUME Under(q)' PROVE Standing(q)'
  <2>1. Under(q) /\ Standing(q)
    BY <1>1, <1>6 DEF Under
  <2>2. Closes(q)' = Closes(q) /\ Request(q)' = Request(q) /\ txn'[q].kept = txn[q].kept
    BY DEF Closes, Request
  <2>3. PICK r, kept : r = Request(q) /\ kept = txn[q].kept /\ r = Request(q)' /\ kept = txn'[q].kept
    BY <2>2
  <2>4. r.op \in OpensProject => tasks' = tasks
    BY <1>2, <2>1, <2>3
  <2>5. CASE r.op \in OpensProject
    <3>1. /\ Exists(r.task)' = Exists(r.task) /\ Subtree(r.task)' = Subtree(r.task)
          /\ Versions(Subtree(r.task))' = Versions(Subtree(r.task)) /\ tasks' = tasks
      BY <2>4, <2>5, SameTree
    <3>2. /\ r.op = "create" => r.task = Root \/ Exists(r.task)
          /\ r.op = "create" /\ Closes(q) => \E u \in Tasks : tasks[u].life = "unborn"
          /\ r.op \in Destructions => Exists(r.task)
          /\ r.op = "archive" => kept = Versions(Subtree(r.task))
          /\ r.op = "delete" /\ Closes(q) => kept = Subtree(r.task)
      BY <2>1, <2>3 DEF Standing
    <3> QED
      BY <2>2, <2>3, <2>5, <3>1, <3>2 DEF Standing, OpensProject, Links, Destructions
  <2>6. CASE r.op \notin OpensProject
    BY <2>1, <2>2, <2>3, <2>6 DEF Standing, OpensProject, Destructions, ScopeIds
  <2> QED
    BY <2>5, <2>6
<1> QED
  BY <1>5, <1>6

\* its request as spent, and fresh if it was,
LEMMA OthersSpent ==
  ASSUME Inv, NEW p \in Clients, Guarantee(p), NEW q \in Clients, p # q,
         txn'[q] = txn[q]
  PROVE  SpentOnce(q)' /\ Fresh(q)'
<1>1. Under(q) => Standing(q)
  BY DEF Inv, ClientInv
<1>2. TxnOK(q) /\ SpentOnce(q) /\ Fresh(q)
  BY DEF Inv, ClientInv
<1> PICK r : r = Request(q) /\ r = Request(q)'
  BY DEF Request
<1>3. CASE r = NoRequest
  BY <1>2, <1>3 DEF SpentOnce, Fresh, TxnOK, Under, Closes
<1>4. CASE r # NoRequest
  <2>1. RequestOK(r)
    BY <1>2, <1>4 DEF TxnOK
  <2>2. \A s \in ScopeIds : effects'[<<r.key, s>>] = effects[<<r.key, s>>]
    <3>1. r.key # Request(p).key
      BY <1>4 DEF Inv, Keys
    <3>2. r.key \in 1..MaxRequests
      BY <2>1, BoundsAssumption DEF RequestOK, Inv, Stored
    <3> QED
      BY <3>1, <3>2 DEF Guarantee, Counted
  <2>3. SpentOnce(q)'
    <3>1. ASSUME NEW s \in ScopeIds, effects'[<<r.key, s>>] > 0
          PROVE  Spent(r, s)'
      <4>1. Spent(r, s)
        BY <1>2, <1>4, <2>2, <3>1 DEF SpentOnce
      <4> QED
        BY <2>1, <4>1, SpentStays DEF Inv, Guarantee, Counted
    <3> QED
      BY <3>1 DEF SpentOnce, Spent
  <2>4. Fresh(q)'
    <3>1. Under(q) /\ r.op \in Recording \cup Answers => effects'[<<r.key, Root>>] = 0
      BY <1>2, <2>2 DEF Fresh, ScopeIds
    <3>2. ASSUME Closes(q), r.op \notin Follows
          PROVE  /\ effects'[<<r.key, EffectScope(q)'>>] = 0
                 /\ r.op \in Edits => Reached(r.task, r.shown[1])'
                 /\ r.op \in Versioned => Reached(r.task, r.shown[2])'
                 /\ r.op \in Links => ScopeReached(txn[q].kept.scope, r.shown[1])'
      <4>1. EffectScope(q)' = EffectScope(q) /\ EffectScope(q) \in ScopeIds
        BY <1>1, <1>2, <3>2 DEF EffectScope, Request, ScopeIds, Closes, Under, Standing
      <4>2. /\ effects[<<r.key, EffectScope(q)>>] = 0
            /\ r.op \in Edits => Reached(r.task, r.shown[1])
            /\ r.op \in Versioned => Reached(r.task, r.shown[2])
            /\ r.op \in Links => ScopeReached(txn[q].kept.scope, r.shown[1])
        BY <1>2, <3>2 DEF Fresh
      <4>3. r.op \in Edits \cup Versioned => r.task \in Tasks /\ Born(r.task)
        BY <2>1 DEF RequestOK, ScopeIds, Edits, Blocks, Versioned, Destructions
      <4>4. PICK s : s = txn[q].kept.scope /\ s = txn'[q].kept.scope
        OBVIOUS
      <4>5. r.op \in Links => s \in ScopeIds
        BY <1>1, <1>2, <3>2, <4>4 DEF Standing, Closes, Under
      <4>6. r.op \in Links => ScopeReached(s, r.shown[1])'
        BY <4>2, <4>4, <4>5, ScopeReachedStays DEF Inv, Guarantee
      <4>7. /\ r.op \in Edits => Reached(r.task, r.shown[1])'
            /\ r.op \in Versioned => Reached(r.task, r.shown[2])'
        BY <4>2, <4>3, ReachedStays DEF Inv, Guarantee
      <4>8. r.op \in Links => ScopeReached(txn[q].kept.scope, r.shown[1])'
        BY <4>4, <4>6 DEF ScopeReached, Deleted
      <4> QED
        BY <2>2, <4>1, <4>2, <4>7, <4>8
    <3>3. Closes(q)' = Closes(q) /\ Under(q)' = Under(q)
      BY DEF Closes, Under
    <3> QED
      BY <3>1, <3>2, <3>3 DEF Fresh
  <2> QED
    BY <2>3, <2>4
<1> QED
  BY <1>3, <1>4

\* and what it decided on sound.
LEMMA OthersSound ==
  ASSUME Inv, NEW p \in Clients, Guarantee(p), NEW q \in Clients, p # q,
         txn'[q] = txn[q]
  PROVE  StillSound(q)'
<1> SUFFICES ASSUME Closes(q) PROVE StillSound(q)'
  BY DEF StillSound, Closes
<1>1. TxnOK(q) /\ Claimed(q) /\ Standing(q) /\ StillSound(q)
  BY DEF Inv, ClientInv, Closes, Under
<1> PICK r : r = Request(q) /\ r = Request(q)'
  BY DEF Request
<1>2. RequestOK(r) /\ Guards(q) \subseteq txn[q].held
  BY <1>1 DEF TxnOK, Closes, Claimed
<1> PICK e, s : e = NewEdge(q) /\ s = EdgeScope(q)
  OBVIOUS
<1>3. ASSUME Inserts(q)'
      PROVE  /\ e = NewEdge(q)' /\ s = EdgeScope(q)'
             /\ Born(e[1])' /\ Born(e[2])'
             /\ Inscope(e[1], s)' /\ Inscope(e[2], s)' =>
                  Live(e[1])' /\ Live(e[2])' /\ ~Cyclic(ScopeEdges(s)' \cup {e})
  <2>1. r.op \in Answers => /\ r.other \in DOMAIN asks /\ asks'[r.other].op = asks[r.other].op
                            /\ asks'[r.other].scope = asks[r.other].scope
                            /\ asks'[r.other].pred = asks[r.other].pred
                            /\ asks'[r.other].succ = asks[r.other].succ
    BY <1>2 DEF RequestOK, Guarantee, AsksAdvance
  <2>2. Inserts(q) /\ r.op \in Links \cup Answers
    BY <1>3, <2>1 DEF Inserts, Answers, Links
  <2>3. NewEdge(q)' = NewEdge(q) /\ EdgeScope(q)' = EdgeScope(q)
    BY <2>1, <2>2 DEF NewEdge, EdgeScope, Inserts, Request, Answers
  <2>5. e[1] \in Tasks /\ e[2] \in Tasks /\ s \in ScopeIds
    BY <1>1, <1>2, <2>2, StoredFacts
       DEF Inv, RequestOK, NewEdge, EdgeScope, Inserts, Closes, Standing, Links, Answers, ScopeIds
  <2>6. Undisturbed(s)
    <3>1. X(Scope(s)) \in txn[q].held
      BY <1>2, <2>2 DEF Guards, Links, Answers
    <3>2. ~Holds(p, Scope(s))
      BY <3>1, Excludes DEF Inv
    <3> QED
      BY <2>5, <3>2 DEF Guarantee
  <2>7. /\ Born(e[1]) /\ Born(e[2])
        /\ Inscope(e[1], s) /\ Inscope(e[2], s) =>
             Live(e[1]) /\ Live(e[2]) /\ ~Cyclic(ScopeEdges(s) \cup {e})
    BY <1>1, <2>2 DEF StillSound
  <2>8. Born(e[1])' /\ Born(e[2])'
    BY <2>5, <2>7 DEF Guarantee, TasksAdvance
  <2>9. ASSUME Inscope(e[1], s)', Inscope(e[2], s)'
        PROVE  Live(e[1])' /\ Live(e[2])' /\ ~Cyclic(ScopeEdges(s)' \cup {e})
    <3>1. /\ Inscope(e[1], s) /\ tasks'[e[1]].life = tasks[e[1]].life
          /\ Inscope(e[2], s) /\ tasks'[e[2]].life = tasks[e[2]].life
      BY <2>5, <2>6, <2>7, <2>9 DEF Undisturbed
    <3>2. ScopeEdges(s)' \cup {e} \subseteq ScopeEdges(s) \cup {e}
      BY <2>6 DEF Undisturbed
    <3>3. ~Cyclic(ScopeEdges(s)' \cup {e})
      BY <2>7, <3>1, <3>2, FewerEdgesFewerCycles
    <3> QED
      BY <2>7, <3>1, <3>3 DEF Live
  <2> QED
    BY <2>3, <2>8, <2>9
<1>4. ASSUME r.op = "move"
      PROVE  Deleted(r.task)' \/ (Inscope(r.task, txn[q].kept)' /\ Incident({r.task})' = {})
  <2>1. PICK from : from = txn[q].kept /\ from = txn'[q].kept
    OBVIOUS
  <2>2. r.task \in Tasks /\ from \in ScopeIds /\ Born(r.task)
    BY <1>1, <1>2, <1>4, <2>1 DEF RequestOK, Standing, ScopeIds
  <2>3. X(Scope(from)) \in txn[q].held /\ X(Task(r.task)) \in txn[q].held
    BY <1>2, <1>4, <2>1 DEF Guards, Links, Answers
  <2>4. ~Holds(p, Scope(from)) /\ ~Holds(p, Task(r.task))
    BY <2>3, Excludes DEF Inv
  <2>5. Unmoved(r.task, from)
    BY <2>2, <2>4 DEF Guarantee
  <2>6. Deleted(r.task) \/ (Inscope(r.task, from) /\ Incident({r.task}) = {})
    BY <1>1, <1>4, <2>1 DEF StillSound
  <2>7. Deleted(r.task)' \/ (Inscope(r.task, from)' /\ Incident({r.task})' = {})
    BY <2>2, <2>5, <2>6 DEF Unmoved, Guarantee, TasksAdvance
  <2> QED
    BY <2>1, <2>7 DEF Inscope, Exists
<1> QED
  BY <1>3, <1>4 DEF StillSound, Born, Inscope, Exists, Live, ScopeEdges, Deleted, Incident

\* A client whose connection does not move keeps its part of the invariant.
LEMMA OthersRely ==
  ASSUME Inv, NEW p \in Clients, Guarantee(p), NEW q \in Clients, p # q,
         txn'[q] = txn[q]
  PROVE  ClientInv(q)'
<1>1. TxnOK(q)'
  BY OthersTxn DEF Inv, ClientInv
<1> QED
  BY <1>1, OthersClaim, OthersSpent, OthersSound DEF ClientInv

\* The dependencies of a sound graph: live siblings, without a cycle.
Siblings(e) == Live(e[1]) /\ Live(e[2]) /\ tasks[e[1]].parent = tasks[e[2]].parent

\* The dependencies are sound, edge by edge and scope by scope.
LEMMA SoundFacts ==
  ASSUME Stored, DependenciesAreSound
  PROVE  /\ \A e \in edges : Siblings(e)
         /\ \A s \in ScopeIds : ~Cyclic(ScopeEdges(s))
<1>1. DOMAIN graph = ScopeIds
  BY DEF Stored
<1>2. \A e \in edges : tasks[e[1]].parent \in ScopeIds /\ e \in ScopeEdges(tasks[e[1]].parent)
  BY DEF Stored, Row, ScopeIds, ScopeEdges
<1> QED
  BY <1>1, <1>2 DEF DependenciesAreSound, SoundEdges, Siblings

\* And that is all there is to it.
LEMMA SoundFrom ==
  ASSUME Stored', \A e \in edges' : Siblings(e)',
         \A s \in ScopeIds : ~Cyclic(ScopeEdges(s)')
  PROVE  DependenciesAreSound'
<1> SUFFICES ASSUME NEW s \in ScopeIds PROVE SoundEdges(ScopeEdges(s))'
  BY DEF DependenciesAreSound, Stored
<1> DEFINE E == ScopeEdges(s)'
<1>1. E \subseteq edges' /\ ~Cyclic(E)
  BY DEF ScopeEdges
<1>2. \A e \in E : e[1] \in Tasks /\ e[2] \in Tasks
  BY <1>1 DEF Stored
<1> HIDE DEF E
<1>3. ASSUME NEW e \in E
      PROVE  /\ {e[1], e[2]} \subseteq Existing'
             /\ Live(e[1])' /\ Live(e[2])'
             /\ tasks'[e[1]].parent = tasks'[e[2]].parent
  BY <1>1, <1>2 DEF Siblings, Existing, Exists, Live
<1> QED
  BY <1>1, <1>3 DEF SoundEdges, E

\* Fewer edges between tasks that neither moved nor died.
LEMMA SoundStays ==
  ASSUME Stored, Stored', DependenciesAreSound, edges' \subseteq edges,
         \A e \in edges' : \A t \in {e[1], e[2]} :
           tasks'[t].life = tasks[t].life /\ tasks'[t].parent = tasks[t].parent
  PROVE  DependenciesAreSound'
<1>1. \A e \in edges' : Siblings(e)'
  <2> SUFFICES ASSUME NEW e \in edges' PROVE Siblings(e)'
    OBVIOUS
  <2>1. Siblings(e)
    BY SoundFacts
  <2> QED
    BY <2>1 DEF Siblings, Live
<1>2. ASSUME NEW s \in ScopeIds PROVE ~Cyclic(ScopeEdges(s)')
  <2>1. ScopeEdges(s)' \subseteq ScopeEdges(s)
    BY DEF ScopeEdges
  <2> QED
    BY <2>1, SoundFacts, FewerEdgesFewerCycles
<1> QED
  BY <1>1, <1>2, SoundFrom

\* What a step must show: its guarantee, its own client's part, and the
\* tables' own invariants.
TablesInv == Rooted /\ DependenciesAreSound /\ AppliedOnce

SameOrNext(p) ==
  \/ Request(p)' = NoRequest \/ Request(p)' = Request(p)
  \/ Request(p)'.key = prepared' /\ prepared' = prepared + 1

NoConflict(p) ==
  \A q \in Clients : q # p => \A a \in txn'[p].held, b \in txn[q].held : ~Conflict(a, b)

\* Who takes no lock is in nobody's way.
LEMMA FewerLocks ==
  ASSUME Compatible, NEW p \in Clients, txn'[p].held \subseteq txn[p].held
  PROVE  NoConflict(p)
BY DEF Compatible, NoConflict

\* A step that keeps its guarantee, its client's part and the tables' keeps the invariant.
LEMMA Assembled ==
  ASSUME Inv, NEW p \in Clients, Guarantee(p), NEW x, txn' = [txn EXCEPT ![p] = x],
         ClientInv(p)', TablesInv', SameOrNext(p), NoConflict(p)
  PROVE  Inv'
<1>1. txn'[p] = x /\ \A q \in Clients : q # p => txn'[q] = txn[q]
  BY DEF Inv
<1>2. (txn = [q \in Clients |-> txn[q]])'
  BY DEF Inv
<1>3. \A q \in Clients : ClientInv(q)'
  BY <1>1, OthersRely
<1>4. \A q \in Clients : Request(q) # NoRequest => Request(q).key \in 1..prepared
  BY DEF Inv, ClientInv, TxnOK, RequestOK
<1>5. Keys'
  <2>1. ASSUME NEW k \in 1..MaxRequests, NEW s \in ScopeIds, k > prepared'
        PROVE  effects'[<<k, s>>] = 0
    <3>1. prepared <= prepared' /\ prepared \in Nat /\ prepared' \in Nat /\ k \in Nat
      BY BoundsAssumption DEF Guarantee, Counted, Inv, Stored
    <3>2. k # Request(p).key
      BY <1>4, <2>1, <3>1 DEF NoRequest
    <3>3. effects'[<<k, s>>] = effects[<<k, s>>]
      BY <3>2 DEF Guarantee, Counted
    <3>4. k > prepared
      BY <2>1, <3>1
    <3> QED
      BY <3>3, <3>4 DEF Inv, Keys
  <2>2. ASSUME NEW q \in Clients, NEW u \in Clients, q # u, Request(q)' # NoRequest
        PROVE  Request(q)'.key # Request(u)'.key
    <3>1. Request(q) = Request(q)' \/ q = p
      BY <1>1 DEF Request
    <3>2. Request(u) = Request(u)' \/ u = p
      BY <1>1 DEF Request
    <3>3. NoRequest.key = 0 /\ prepared \in Nat
      BY DEF NoRequest, Inv, Stored
    <3>4. \A v \in Clients : Request(v).key \in 0..prepared
      BY <1>4, <3>3
    <3>5. \A v \in Clients : Request(v) # NoRequest => Request(v).key > 0
      BY <1>4, <3>3
    <3>6. \A v, w \in Clients : v # w /\ Request(v) # NoRequest => Request(v).key # Request(w).key
      BY DEF Inv, Keys
    <3>7. CASE q # p /\ u # p
      BY <2>2, <3>1, <3>2, <3>6, <3>7
    <3>8. CASE q = p
      BY <2>2, <3>2, <3>3, <3>4, <3>5, <3>6, <3>8 DEF SameOrNext
    <3>9. CASE u = p
      BY <2>2, <3>1, <3>3, <3>4, <3>5, <3>6, <3>9 DEF SameOrNext
    <3> QED
      BY <3>7, <3>8, <3>9
  <2> QED
    BY <2>1, <2>2 DEF Keys
<1>6. Compatible'
  <2>1. \A a, b : Conflict(a, b) = Conflict(b, a)
    <3>1. \A m, n : {m, n} = {n, m}
      OBVIOUS
    <3> QED
      BY <3>1 DEF Conflict
  <2> SUFFICES ASSUME NEW q \in Clients, NEW u \in Clients, q # u,
                      NEW a \in txn'[q].held, NEW b \in txn'[u].held
               PROVE  ~Conflict(a, b)
    BY DEF Compatible, Conflict
  <2>2. CASE q # p /\ u # p
    BY <1>1, <2>2 DEF Inv, Compatible
  <2>3. CASE q = p
    BY <1>1, <2>3 DEF NoConflict
  <2>4. CASE u = p
    BY <1>1, <2>1, <2>4 DEF NoConflict
  <2> QED
    BY <2>2, <2>3, <2>4
<1> QED
  BY <1>2, <1>3, <1>5, <1>6 DEF Inv, TablesInv, Guarantee

\* A step after which every task is where it was and as alive, and no
\* dependency is new.
LEMMA SamePlaces ==
  ASSUME Inv, NEW p \in Clients, Stored', TasksAdvance, ScopesAdvance, AsksAdvance, Counted(p),
         tasks' # tasks => Holds(p, Project), edges' \subseteq edges,
         \A t \in Tasks : tasks'[t].life = tasks[t].life /\ tasks'[t].parent = tasks[t].parent
  PROVE  Guarantee(p) /\ Rooted' /\ DependenciesAreSound'
<1>1. \A e \in edges : e[1] \in Tasks /\ e[2] \in Tasks
  BY DEF Inv, Stored
<1>2. \A s \in ScopeIds : Undisturbed(s)
  BY <1>1 DEF Undisturbed, ScopeEdges, Inscope, Exists
<1>3. \A t \in Tasks, s \in ScopeIds : Unmoved(t, s)
  BY DEF Unmoved, Inscope, Exists, Incident
<1>4. Rooted'
  <2>1. \A t \in Tasks : Exists(t)' = Exists(t)
    BY DEF Exists
  <2>2. \A t \in Tasks : tasks[t].parent \in ScopeIds
    BY DEF Inv, Stored, Row, ScopeIds
  <2> QED
    BY <2>1, <2>2 DEF Inv, Rooted, Existing, ScopeIds
<1>5. DependenciesAreSound'
  BY <1>1, SoundStays DEF Inv
<1> QED
  BY <1>2, <1>3, <1>4, <1>5 DEF Guarantee

\* Nothing goes back when tasks and graph versions stay.
LEMMA SameTasks ==
  ASSUME Inv, UNCHANGED <<tasks, graph>>, Stored'
  PROVE  TasksAdvance /\ ScopesAdvance
<1>1. TasksAdvance
  BY DEF TasksAdvance, Born, Deleted, Inv, Stored, Row
<1>2. ScopesAdvance
  BY DEF ScopesAdvance, Inv, Stored
<1> QED
  BY <1>1, <1>2

\* A step that writes no table keeps its guarantee.
LEMMA QuietGuarantee ==
  ASSUME Inv, NEW p \in Clients, UNCHANGED <<rows, recorded, effects>>,
         prepared' \in 0..MaxRequests, prepared <= prepared'
  PROVE  Guarantee(p) /\ TablesInv'
<1> USE DEF rows
<1>1. Stored'
  <2>1. recorded \subseteq 1..prepared'
    BY BoundsAssumption DEF Inv, Stored
  <2> QED
    BY <2>1 DEF Inv, Stored
<1>2. AsksAdvance /\ Counted(p)
  BY DEF AsksAdvance, Counted
<1>3. AppliedOnce'
  BY DEF Inv, AppliedOnce
<1> QED
  BY <1>1, <1>2, <1>3, SameTasks, SamePlaces DEF TablesInv

-----------------------------------------------------------------------------
(* Steps that leave the tables alone: a lock, a refusal, a deadlock.       *)

\* What a transaction leaves when it ends.
LEMMA EndedShape ==
  ASSUME Inv, NEW p \in Clients, txn' = [txn EXCEPT ![p] = Ended(p)]
  PROVE  /\ txn'[p] = [stage |-> txn'[p].stage, request |-> txn'[p].request, tries |-> txn'[p].tries,
                       todo |-> txn'[p].todo, held |-> txn'[p].held, kept |-> txn'[p].kept]
         /\ txn'[p].stage = "idle" /\ txn'[p].held = {} /\ txn'[p].todo = <<>>
         /\ Request(p)' \in {NoRequest, Request(p)}
<1>1. txn'[p] = Ended(p)
  BY DEF Inv
<1>2. \E r \in {NoRequest, Request(p)} : \E n :
        Ended(p) = [stage |-> "idle", request |-> r, tries |-> n,
                    todo |-> <<>>, held |-> {}, kept |-> <<>>]
  <2>1. CASE txn[p].tries = MaxTries
    BY <2>1 DEF Ended, Idle
  <2>2. CASE txn[p].tries # MaxTries
    <3>1. Ended(p) = [stage |-> "idle", request |-> Request(p), tries |-> txn[p].tries,
                      todo |-> <<>>, held |-> {}, kept |-> <<>>]
      BY <2>2 DEF Ended, Idle
    <3> QED
      BY <3>1
  <2> QED
    BY <2>1, <2>2
<1>3. PICK r \in {NoRequest, Request(p)} : \E n :
        txn'[p] = [stage |-> "idle", request |-> r, tries |-> n,
                   todo |-> <<>>, held |-> {}, kept |-> <<>>]
  BY <1>1, <1>2
<1>4. PICK n : txn'[p] = [stage |-> "idle", request |-> r, tries |-> n,
                          todo |-> <<>>, held |-> {}, kept |-> <<>>]
  BY <1>3
<1>5. Request(p)' = r
  BY <1>4 DEF Request
<1> QED
  BY <1>3, <1>4, <1>5

\* A list of locks is its first and the rest.
LEMMA FirstAndRest ==
  ASSUME NEW s \in Seq(Locks), s # <<>>
  PROVE  Head(s) \in Locks /\ Tail(s) \in Seq(Locks)
         /\ Range(s) = {Head(s)} \cup Range(Tail(s))
<1>1. Head(s) \in Locks /\ Tail(s) \in Seq(Locks) /\ Len(Tail(s)) = Len(s) - 1
      /\ \A i \in 1..Len(Tail(s)) : Tail(s)[i] = s[i + 1]
  BY HeadTailProperties
<1>2. Len(s) \in Nat \ {0} /\ DOMAIN s = 1..Len(s)
  BY LenProperties, EmptySeq
<1> PICK t \in Seq(Locks) : t = Tail(s)
  BY <1>1
<1>3. DOMAIN t = 1..Len(t) /\ Len(t) = Len(s) - 1
  BY <1>1, LenProperties
<1>4. Head(s) = s[1]
  OBVIOUS
<1>5. ASSUME NEW i \in DOMAIN s, i # 1 PROVE i - 1 \in DOMAIN t /\ t[i - 1] = s[i]
  <2>1. i - 1 \in 1..Len(t) /\ (i - 1) + 1 = i
    BY <1>2, <1>3, <1>5
  <2> QED
    BY <1>1, <1>3, <2>1
<1>6. ASSUME NEW i \in DOMAIN t PROVE i + 1 \in DOMAIN s /\ s[i + 1] = t[i]
  BY <1>1, <1>2, <1>3
<1>7. 1 \in DOMAIN s
  BY <1>2
<1>8. Range(s) \subseteq {Head(s)} \cup Range(t)
  BY <1>4, <1>5 DEF Range
<1>9. {Head(s)} \cup Range(t) \subseteq Range(s)
  BY <1>4, <1>6, <1>7 DEF Range
<1> QED
  BY <1>1, <1>8, <1>9

\* The request of a client whose step has no effect is as spent as before.
LEMMA SpentSame ==
  ASSUME Inv, NEW p \in Clients, Guarantee(p), effects' = effects,
         Request(p)' \in {NoRequest, Request(p)}
  PROVE  SpentOnce(p)'
<1> PICK r : r = Request(p)'
  OBVIOUS
<1> SUFFICES ASSUME r # NoRequest, NEW s \in ScopeIds, effects[<<r.key, s>>] > 0
             PROVE  Spent(r, s)'
  BY DEF SpentOnce, Spent
<1>1. r = Request(p) /\ RequestOK(r) /\ Spent(r, s)
  BY DEF Inv, ClientInv, TxnOK, SpentOnce
<1> QED
  BY <1>1, SpentStays DEF Inv, Guarantee, Counted

\* A transaction that ends leaves its client with nothing but the request.
LEMMA EndedClient ==
  ASSUME Inv, NEW p \in Clients, Guarantee(p), txn' = [txn EXCEPT ![p] = Ended(p)],
         SpentOnce(p)'
  PROVE  ClientInv(p)' /\ SameOrNext(p) /\ NoConflict(p)
<1>1. /\ txn'[p].stage = "idle" /\ txn'[p].held = {} /\ txn'[p].todo = <<>>
      /\ Request(p)' \in {NoRequest, Request(p)}
  BY EndedShape
<1>2. txn'[p] = [stage |-> txn'[p].stage, request |-> txn'[p].request, tries |-> txn'[p].tries,
                 todo |-> txn'[p].todo, held |-> txn'[p].held, kept |-> txn'[p].kept]
  BY EndedShape
<1>3. Request(p)' # NoRequest => RequestOK(Request(p))'
  <2> PICK r : r = Request(p)'
    OBVIOUS
  <2>1. r # NoRequest => r = Request(p) /\ RequestOK(r)
    BY <1>1 DEF Inv, ClientInv, TxnOK
  <2>2. r # NoRequest => RequestOK(r)'
    BY <2>1, RequestStays DEF Inv, Guarantee, Counted
  <2> QED
    BY <2>2 DEF RequestOK, Born
<1>4. TxnOK(p)'
  <2>1. txn'[p].todo \in Seq(Locks) /\ txn'[p].held \subseteq Locks
    BY <1>1, NoLock
  <2> QED
    BY <1>1, <1>2, <1>3, <2>1 DEF TxnOK
<1>5. ~Under(p)' /\ ~Closes(p)'
  BY <1>1 DEF Under, Closes
<1>6. Claimed(p)' /\ Fresh(p)' /\ StillSound(p)'
  BY <1>1, <1>5 DEF Claimed, Fresh, StillSound
<1> QED
  BY <1>1, <1>4, <1>5, <1>6 DEF ClientInv, SameOrNext, NoConflict

\* A step that ends a transaction and leaves the tables alone.
LEMMA QuietEnd ==
  ASSUME Inv, NEW p \in Clients, UNCHANGED <<rows, recorded, prepared, effects>>,
         txn' = [txn EXCEPT ![p] = Ended(p)]
  PROVE  Inv'
<1>1. Guarantee(p) /\ TablesInv'
  <2>1. prepared' \in 0..MaxRequests /\ prepared <= prepared'
    BY BoundsAssumption DEF Inv, Stored
  <2> QED
    BY <2>1, QuietGuarantee
<1>2. SpentOnce(p)'
  BY <1>1, EndedShape, SpentSame
<1> QED
  BY <1>1, <1>2, EndedClient, Assembled

\* A deadlock, a refusal and a rollback leave no trace.
LEMMA QuietEnds ==
  ASSUME Inv, NEW p \in Clients, Deadlock(p) \/ Refuse(p) \/ Rollback(p)
  PROVE  Inv'
BY QuietEnd DEF Deadlock, Refuse, Rollback

\* Locks come one by one, when nobody holds what they exclude.
LEMMA LockStep ==
  ASSUME Inv, NEW p \in Clients, Lock(p)
  PROVE  Inv'
<1> DEFINE h == Head(txn[p].todo)
           x == [txn[p] EXCEPT !.todo = Tail(@), !.held = @ \cup {h}]
<1>1. TxnOK(p) /\ ClientInv(p)
  BY DEF Inv, ClientInv
<1>2. txn' = [txn EXCEPT ![p] = x]
  BY DEF Lock, Inv
<1>3. txn[p].todo \in Seq(Locks) /\ txn[p].todo # <<>> /\ txn[p].held \subseteq Locks
  BY <1>1 DEF TxnOK, Lock
<1>4. h \in Locks /\ Tail(txn[p].todo) \in Seq(Locks)
      /\ Range(txn[p].todo) = {h} \cup Range(Tail(txn[p].todo))
  BY <1>3, FirstAndRest
<1> HIDE DEF h
<1>5. txn'[p] = x
  BY <1>2 DEF Inv
<1>6. /\ txn'[p].stage = txn[p].stage /\ Request(p)' = Request(p)
      /\ txn'[p].kept = txn[p].kept /\ txn'[p].todo = Tail(txn[p].todo)
      /\ txn'[p].held = txn[p].held \cup {h}
      /\ txn'[p] = [stage |-> txn'[p].stage, request |-> txn'[p].request, tries |-> txn'[p].tries,
                    todo |-> txn'[p].todo, held |-> txn'[p].held, kept |-> txn'[p].kept]
  BY <1>1, <1>5 DEF TxnOK, Request
<1>7. UNCHANGED <<rows, recorded, prepared, effects>>
  BY DEF Lock
<1>8. Guarantee(p) /\ TablesInv'
  <2>1. prepared' \in 0..MaxRequests /\ prepared <= prepared'
    BY <1>7, BoundsAssumption DEF Inv, Stored
  <2> QED
    BY <1>7, <2>1, QuietGuarantee
<1>9. Claims(p)' = Claims(p) /\ txn[p].held \subseteq txn'[p].held
  BY <1>4, <1>6 DEF Claims
<1>10. NoConflict(p)
  <2>1. \A q \in Clients : q # p => \A b \in txn[q].held : ~Conflict(b, h)
    BY <1>3 DEF Lock, WaitsFor, h
  <2>2. \A a, b : Conflict(a, b) = Conflict(b, a)
    <3>1. \A m, n : {m, n} = {n, m}
      OBVIOUS
    <3> QED
      BY <3>1 DEF Conflict
  <2> QED
    BY <1>6, <2>1, <2>2 DEF NoConflict, Inv, Compatible
<1>11. ClientInv(p)'
  <2> USE <1>7 DEF rows
  <2>1. TxnOK(p)'
    BY <1>1, <1>3, <1>4, <1>6 DEF TxnOK, RequestOK, Born, Request
  <2>2. Under(p)' = Under(p) /\ Closes(p)' = Closes(p) /\ Guards(p)' = Guards(p)
    BY <1>6 DEF Under, Closes, Guards, EdgeScope
  <2>3. Claimed(p)'
    BY <1>1, <1>6, <1>9, <2>2 DEF ClientInv, Claimed
  <2>4. (Under(p) => Standing(p))'
    <3> PICK r, k : r = Request(p) /\ k = txn[p].kept /\ r = Request(p)' /\ k = txn'[p].kept
      BY <1>6
    <3>1. /\ Exists(r.task)' = Exists(r.task) /\ Subtree(r.task)' = Subtree(r.task)
          /\ Versions(Subtree(r.task))' = Versions(Subtree(r.task))
      BY SameTree
    <3> QED
      BY <1>1, <2>2, <3>1 DEF ClientInv, Standing
  <2>5. SpentOnce(p)'
    BY <1>6, <1>8, SpentSame
  <2>6. Fresh(p)'
    BY <1>1, <1>6, <2>2 DEF ClientInv, Fresh, EffectScope, Reached, ScopeReached, Deleted
  <2>7. StillSound(p)'
    <3>1. /\ Inserts(p)' = Inserts(p) /\ NewEdge(p)' = NewEdge(p) /\ EdgeScope(p)' = EdgeScope(p)
      BY <1>6 DEF Inserts, NewEdge, EdgeScope
    <3> PICK e, s, t, k : e = NewEdge(p) /\ s = EdgeScope(p) /\ t = Request(p).task /\ k = txn[p].kept
      OBVIOUS
    <3>2. /\ Born(e[1])' = Born(e[1]) /\ Born(e[2])' = Born(e[2])
          /\ Inscope(e[1], s)' = Inscope(e[1], s) /\ Inscope(e[2], s)' = Inscope(e[2], s)
          /\ Live(e[1])' = Live(e[1]) /\ Live(e[2])' = Live(e[2])
          /\ ScopeEdges(s)' = ScopeEdges(s) /\ Deleted(t)' = Deleted(t)
          /\ Inscope(t, k)' = Inscope(t, k) /\ Incident({t})' = Incident({t})
      BY DEF Born, Inscope, Live, Exists, ScopeEdges, Deleted, Incident
    <3> QED
      BY <1>1, <1>6, <2>2, <3>1, <3>2 DEF ClientInv, StillSound
  <2> QED
    BY <2>1, <2>3, <2>4, <2>5, <2>6, <2>7 DEF ClientInv
<1>12. SameOrNext(p)
  BY <1>6 DEF SameOrNext
<1> QED
  BY <1>2, <1>8, <1>10, <1>11, <1>12, Assembled

-----------------------------------------------------------------------------
(* Steps that only write the requests for a change of dependencies.        *)

\* A mark on a request for a dependency change moves it on.
LEMMA AskMarked ==
  ASSUME Stored, NEW k \in DOMAIN asks, NEW status \in Statuses, status # "pending",
         asks' = [asks EXCEPT ![k].status = status]
  PROVE  asks' \in Seq(AskRow) /\ AsksAdvance /\ asks'[k].status = status
<1> DEFINE row == [asks[k] EXCEPT !.status = status]
<1>1. asks \in Seq(AskRow) /\ k \in 1..Len(asks) /\ DOMAIN asks = 1..Len(asks)
  BY StoredFacts DEF Stored
<1>2. asks[k] \in AskRow
  BY <1>1, StoredFacts
<1>3. row \in AskRow /\ row.status = status /\ row.op = asks[k].op /\ row.scope = asks[k].scope
      /\ row.pred = asks[k].pred /\ row.succ = asks[k].succ
  <2> PICK a \in AskRow : a = asks[k]
    BY <1>2
  <2>1. [a EXCEPT !.status = status] = [op |-> a.op, pred |-> a.pred, succ |-> a.succ, scope |-> a.scope,
          graph |-> a.graph, owners |-> a.owners, acceptor |-> a.acceptor, status |-> status]
    BY DEF AskRow
  <2> QED
    BY <2>1 DEF AskRow
<1> HIDE DEF row
<1>4. asks' = [asks EXCEPT ![k] = row]
  BY DEF row
<1>5. asks' \in Seq(AskRow) /\ Len(asks') = Len(asks)
      /\ \A j \in 1..Len(asks) : asks'[j] = IF j = k THEN row ELSE asks[j]
  BY <1>1, <1>3, <1>4, ExceptSeq
<1>6. DOMAIN asks' = 1..Len(asks')
  BY <1>5, LenProperties
<1> QED
  BY <1>1, <1>3, <1>5, <1>6 DEF AsksAdvance

\* Expired and stale answers only mark the request.
LEMMA MarkStep ==
  ASSUME Inv, NEW p \in Clients, Expire(p) \/ Outdate(p)
  PROVE  Inv' /\ AsksAdvance
<1> PICK status \in {"expired", "stale"} : Mark(p, status) /\ Request(p).op \in Answers /\ txn[p].stage # "idle"
  BY DEF Expire, Outdate, Outdated, At
<1> USE DEF Mark
<1>1. Request(p).other \in DOMAIN asks
  BY DEF Inv, ClientInv, TxnOK, RequestOK
<1>2. asks' \in Seq(AskRow) /\ AsksAdvance
  <2>1. status \in Statuses /\ status # "pending"
    BY DEF Statuses
  <2>2. Stored /\ asks' = [asks EXCEPT ![Request(p).other].status = status]
    BY DEF Inv
  <2> HIDE DEF Mark
  <2> QED
    BY <1>1, <2>1, <2>2, AskMarked
<1>3. Stored'
  BY <1>2 DEF Inv, Stored
<1>4. Counted(p)
  BY DEF Counted, Inv, Stored
<1>5. Guarantee(p) /\ TablesInv'
  <2>1. AppliedOnce'
    BY DEF Inv, AppliedOnce
  <2> QED
    BY <1>2, <1>3, <1>4, <2>1, SameTasks, SamePlaces DEF TablesInv
<1>6. SpentOnce(p)'
  BY <1>5, EndedShape, SpentSame
<1> QED
  BY <1>2, <1>5, <1>6, EndedClient, Assembled

\* Asking for a change of dependencies only adds to the requests.
LEMMA AskStep ==
  ASSUME Inv, NEW p \in Clients, AskForDependency(p)
  PROVE  Inv' /\ AsksAdvance
<1> DEFINE r == Request(p)
           scope == txn[p].kept.scope
           owners == <<EffectiveOwner(r.task), EffectiveOwner(r.other)>>
           row == [op |-> r.op, pred |-> r.task, succ |-> r.other, scope |-> scope,
                   graph |-> graph[scope], owners |-> owners,
                   acceptor |-> IF owners[1] = r.actor THEN owners[2] ELSE owners[1],
                   status |-> "pending"]
<1>1. r.op \in Links /\ r # NoRequest /\ Closes(p)
  BY DEF AskForDependency, Writes, At, Closes, Inv, ClientInv, TxnOK
<1>2. r.task \in Tasks /\ r.other \in Tasks /\ scope \in ScopeIds
  BY <1>1 DEF Inv, ClientInv, TxnOK, RequestOK, Standing, Closes, Under, ScopeIds, Links
<1>3. EffectiveOwner(r.task) \in Owner /\ EffectiveOwner(r.other) \in Owner
  <2> HIDE DEF r
  <2> QED
    BY <1>2, OwnerType DEF Inv, Stored, Owner
<1>4. row \in AskRow
  <2>1. graph[scope] \in Nat
    BY <1>2 DEF Inv, Stored
  <2>2. owners \in Owner \X Owner /\ owners[1] \in Owner /\ owners[2] \in Owner
    BY <1>3
  <2> PICK acceptor \in Owner : acceptor = IF owners[1] = r.actor THEN owners[2] ELSE owners[1]
    BY <2>2
  <2>3. row = [op |-> r.op, pred |-> r.task, succ |-> r.other, scope |-> scope,
               graph |-> graph[scope], owners |-> owners, acceptor |-> acceptor, status |-> "pending"]
    OBVIOUS
  <2>4. "pending" \in Statuses
    BY DEF Statuses
  <2> HIDE DEF r, scope, owners, row
  <2> QED
    BY <1>1, <1>2, <2>1, <2>2, <2>3, <2>4 DEF AskRow
<1>5. asks' = Append(asks, row)
  BY DEF AskForDependency
<1> HIDE DEF row
<1>6. /\ asks' \in Seq(AskRow) /\ Len(asks') = Len(asks) + 1
      /\ \A i \in 1..Len(asks) : asks'[i] = asks[i]
  <2>1. asks \in Seq(AskRow)
    BY DEF Inv, Stored
  <2> QED
    BY <1>4, <1>5, <2>1
<1>7. DOMAIN asks = 1..Len(asks) /\ DOMAIN asks' = 1..Len(asks') /\ Len(asks) \in Nat
  BY <1>6, StoredFacts, LenProperties DEF Inv
<1>8. AsksAdvance
  BY <1>6, <1>7 DEF AsksAdvance
<1>9. UNCHANGED <<tasks, edges, disabled, graph, follows, blockers, recorded, prepared, effects>>
      /\ txn' = [txn EXCEPT ![p] = Ended(p)]
  BY DEF AskForDependency
<1>10. Stored'
  BY <1>6, <1>9 DEF Inv, Stored
<1>11. Counted(p)
  BY <1>9 DEF Counted, Inv, Stored
<1>12. Guarantee(p) /\ TablesInv'
  <2>1. AppliedOnce'
    BY <1>9 DEF Inv, AppliedOnce
  <2> QED
    BY <1>8, <1>9, <1>10, <1>11, <2>1, SameTasks, SamePlaces DEF TablesInv
<1>13. SpentOnce(p)'
  BY <1>9, <1>12, EndedShape, SpentSame
<1> QED
  BY <1>8, <1>9, <1>12, <1>13, EndedClient, Assembled

-----------------------------------------------------------------------------
(* Sending, preparing and deciding.                                        *)

\* A transaction that opens with a request that can have been made.
LEMMA OpenStep ==
  ASSUME Inv, NEW p \in Clients, NEW r, NEW n, txn' = [txn EXCEPT ![p] = Opened(r, n)],
         UNCHANGED <<rows, recorded, effects>>, prepared' \in 0..MaxRequests, prepared <= prepared',
         RequestOK(r)', r # NoRequest, SameOrNext(p),
         \A s \in ScopeIds : effects[<<r.key, s>>] > 0 => Spent(r, s)
  PROVE  Inv'
<1>1. Guarantee(p) /\ TablesInv'
  BY QuietGuarantee
<1>2. txn'[p] = Opened(r, n)
  BY DEF Inv
<1>3. txn'[p] = [stage |-> "opening", request |-> r, tries |-> n,
                 todo |-> Opening(r), held |-> {}, kept |-> <<>>]
  BY <1>2 DEF Opened
<1>4. /\ txn'[p].stage = "opening" /\ Request(p)' = r /\ txn'[p].todo = Opening(r) /\ txn'[p].held = {}
  BY <1>3 DEF Request
<1>6. Opening(r) \in Seq(Locks) /\ (r.op \in OpensProject => Range(Opening(r)) = {X(Project)})
  <2>1. r.op # "create" => r.task \in Nat
    BY FiniteTasks DEF RequestOK, ScopeIds
  <2>2. r.op \in Answers => r.other \in DOMAIN asks
    BY DEF RequestOK, rows
  <2>3. r.op \in Answers => r.other \in Nat
    BY <2>2, StoredFacts DEF Inv
  <2> QED
    BY <2>1, <2>3, OpeningLocks
<1>7. TxnOK(p)'
  BY <1>3, <1>4, <1>6 DEF TxnOK, Request
<1>8. ~Under(p)' /\ ~Closes(p)'
  BY <1>4 DEF Under, Closes
<1>9. Claimed(p)'
  BY <1>4, <1>6, <1>8 DEF Claimed, Claims
<1>10. Fresh(p)' /\ StillSound(p)'
  BY <1>8 DEF Fresh, StillSound
<1>11. SpentOnce(p)'
  <2>1. \A s \in ScopeIds : Spent(r, s)' = Spent(r, s)
    BY DEF Spent, Passed, ScopePassed, Deleted, rows
  <2> QED
    BY <1>4, <2>1 DEF SpentOnce
<1>12. ClientInv(p)'
  BY <1>7, <1>8, <1>9, <1>10, <1>11 DEF ClientInv
<1>13. NoConflict(p)
  BY <1>4 DEF NoConflict
<1> QED
  BY <1>1, <1>12, <1>13, Assembled

\* A client that sends its request again starts with nothing but it.
LEMMA ResendStep ==
  ASSUME Inv, NEW p \in Clients, Resend(p)
  PROVE  Inv'
<1> DEFINE r == Request(p)
           n == txn[p].tries + 1
<1>1. r # NoRequest /\ txn' = [txn EXCEPT ![p] = Opened(r, n)]
  BY DEF Resend
<1>2. UNCHANGED <<rows, recorded, effects>> /\ prepared' = prepared
  BY DEF Resend
<1>3. prepared' \in 0..MaxRequests /\ prepared <= prepared'
  BY <1>2, BoundsAssumption DEF Inv, Stored
<1>4. RequestOK(r) /\ \A s \in ScopeIds : effects[<<r.key, s>>] > 0 => Spent(r, s)
  BY <1>1 DEF Inv, ClientInv, TxnOK, SpentOnce
<1> PICK c : c = r
  OBVIOUS
<1>5. RequestOK(c)'
  BY <1>2, <1>4 DEF RequestOK, Born, rows
<1>6. txn'[p] = Opened(c, n)
  BY <1>1 DEF Inv
<1>7. Request(p)' = c
  BY <1>6 DEF Request, Opened
<1>8. SameOrNext(p)
  BY <1>7 DEF SameOrNext
<1> PICK m : m = n
  OBVIOUS
<1> HIDE DEF r, n
<1>9. txn' = [txn EXCEPT ![p] = Opened(c, m)] /\ c # NoRequest
      /\ \A s \in ScopeIds : effects[<<c.key, s>>] > 0 => Spent(c, s)
  BY <1>1, <1>4
<1> QED
  BY <1>2, <1>3, <1>5, <1>8, <1>9, OpenStep

\* What the forms of the page offer.
Askable(q) ==
  /\ q.op \in Ops
  /\ q.task \in ScopeIds /\ (q.op # "create" => q.task # Root)
  /\ q.task # Root => Born(q.task)
  /\ q.op \in {"create", "own"} => q.other \in Owner
  /\ q.op \in Links \cup Follows => q.other \in Tasks
  /\ q.op \in Answers => q.other \in DOMAIN asks
  /\ q.op = "move" => q.other \in ScopeIds

\* What the forms of the page ask is a request.
LEMMA FormsAskable ==
  ASSUME Stored,
         NEW q \in CreateRequests \cup UpdateRequests \cup StatusRequests \cup BlockRequests
                   \cup LinkRequests \cup AnswerRequests \cup FollowRequests \cup MoveRequests
                   \cup OwnRequests \cup CompleteRequests \cup ReopenRequests \cup DestructionRequests
  PROVE  Askable(q)
<1> USE DEF Ops, Edits, Blocks, Links, Answers, Follows, Destructions
<1>1. \A t \in Existing : t \in Tasks /\ t \in ScopeIds /\ t # Root /\ Born(t)
  BY FiniteTasks DEF Existing, Exists, Born, ScopeIds
<1>2. Root \in ScopeIds
  BY DEF ScopeIds
<1>3. ASSUME NEW op, NEW t, NEW o, NEW shown,
             op \in Ops, t \in ScopeIds, op # "create" => t # Root, t # Root => Born(t),
             op \in {"create", "own"} => o \in Owner,
             op \in Links \cup Follows => o \in Tasks,
             op \in Answers => o \in DOMAIN asks,
             op = "move" => o \in ScopeIds
      PROVE  Askable(Asked(op, t, o, shown))
  BY <1>3 DEF Askable, Asked
<1>4. CASE q \in CreateRequests
  BY <1>1, <1>2, <1>3, <1>4 DEF CreateRequests, Owner
<1>5. CASE q \in UpdateRequests \cup StatusRequests \cup BlockRequests \cup CompleteRequests
                 \cup ReopenRequests \cup DestructionRequests
  BY <1>1, <1>3, <1>5 DEF UpdateRequests, StatusRequests, BlockRequests, CompleteRequests,
                          ReopenRequests, DestructionRequests
<1>6. CASE q \in LinkRequests
  BY <1>1, <1>3, <1>6 DEF LinkRequests, Pairs
<1>7. CASE q \in AnswerRequests
  <2>1. \A k \in DOMAIN asks : Exists(asks[k].pred) => asks[k].pred \in Existing
    BY StoredFacts DEF Existing
  <2> QED
    BY <1>1, <1>3, <1>7, <2>1 DEF AnswerRequests
<1>8. CASE q \in FollowRequests
  BY <1>1, <1>3, <1>8 DEF FollowRequests, Pairs
<1>9. CASE q \in MoveRequests
  BY <1>1, <1>2, <1>3, <1>9 DEF MoveRequests
<1>10. CASE q \in OwnRequests
  BY <1>1, <1>3, <1>10 DEF OwnRequests, Owner
<1> QED
  BY <1>4, <1>5, <1>6, <1>7, <1>8, <1>9, <1>10

\* A new request has a number no other has.
LEMMA SendStep ==
  ASSUME Inv, NEW p \in Clients, Send(p)
  PROVE  Inv'
<1>1. PICK actor \in Members,
           q \in CreateRequests \cup UpdateRequests \cup StatusRequests \cup BlockRequests
                 \cup LinkRequests \cup AnswerRequests \cup FollowRequests \cup MoveRequests
                 \cup OwnRequests \cup CompleteRequests \cup ReopenRequests \cup DestructionRequests :
           txn' = [txn EXCEPT ![p] =
             Opened([key |-> prepared', op |-> q.op, actor |-> actor, task |-> q.task,
                     other |-> q.other, shown |-> q.shown], 1)]
  BY DEF Send, Asks
<1>2. UNCHANGED <<rows, recorded, effects>> /\ prepared' = prepared + 1 /\ prepared < MaxRequests
  BY DEF Send
<1> PICK r : r = [key |-> prepared', op |-> q.op, actor |-> actor, task |-> q.task,
                  other |-> q.other, shown |-> q.shown]
  OBVIOUS
<1>3. Askable(q)
  BY FormsAskable DEF Inv
<1>4. prepared' \in 0..MaxRequests /\ prepared <= prepared' /\ prepared' \in 1..prepared'
      /\ prepared' \in 1..MaxRequests /\ prepared' > prepared
  BY <1>2, BoundsAssumption DEF Inv, Stored
<1>5. r.key = prepared' /\ r.op = q.op /\ r.task = q.task /\ r.other = q.other
  OBVIOUS
<1>6. RequestOK(r)'
  BY <1>2, <1>3, <1>4, <1>5 DEF RequestOK, Askable, Born, rows
<1>7. r # NoRequest
  BY <1>4, <1>5 DEF NoRequest
<1>8. Request(p)' = r
  <2>1. txn'[p] = Opened(r, 1)
    BY <1>1 DEF Inv
  <2> QED
    BY <2>1 DEF Request, Opened
<1>9. SameOrNext(p)
  BY <1>2, <1>5, <1>8 DEF SameOrNext
<1>10. \A s \in ScopeIds : effects[<<r.key, s>>] = 0
  BY <1>4, <1>5 DEF Inv, Keys
<1>11. \A s \in ScopeIds : effects[<<r.key, s>>] > 0 => Spent(r, s)
  BY <1>10
<1>12. txn' = [txn EXCEPT ![p] = Opened(r, 1)]
  BY <1>1
<1> QED
  BY <1>2, <1>4, <1>6, <1>7, <1>9, <1>11, <1>12, OpenStep

\* A request that would not be refused has not taken effect.
LEMMA NotSpent ==
  ASSUME Stored, NEW p \in Clients, SpentOnce(p), Request(p) # NoRequest, RequestOK(Request(p)),
         NEW s \in ScopeIds, ~Spent(Request(p), s)
  PROVE  effects[<<Request(p).key, s>>] = 0
<1>1. effects[<<Request(p).key, s>>] \in Nat
  BY BoundsAssumption DEF Stored, RequestOK
<1>2. ~(effects[<<Request(p).key, s>>] > 0)
  BY DEF SpentOnce
<1> QED
  BY <1>1, <1>2

\* A request that was made and not answered with an effect.
LEMMA PrepareStep ==
  ASSUME Inv, NEW p \in Clients, Prepare(p)
  PROVE  Inv'
<1> PICK r : r = Request(p)
  OBVIOUS
<1> DEFINE x == [txn[p] EXCEPT !.stage = "working", !.todo = Working(r), !.kept = Kept(r)]
<1>1. UNCHANGED <<rows, recorded, prepared, effects>> /\ txn[p].stage = "opening" /\ txn[p].todo = <<>>
  BY DEF Prepare, At
<1>2. CASE ~(Prepared(r) /\ ~(r.op \in Recording /\ r.key \in recorded))
  <2>1. txn' = [txn EXCEPT ![p] = Ended(p)]
    BY <1>2 DEF Prepare
  <2> QED
    BY <1>1, <2>1, QuietEnd
<1>3. CASE Prepared(r) /\ ~(r.op \in Recording /\ r.key \in recorded)
  <2>1. txn' = [txn EXCEPT ![p] = x]
    BY <1>3 DEF Prepare
  <2>2. TxnOK(p) /\ Claimed(p) /\ SpentOnce(p) /\ r # NoRequest /\ RequestOK(r)
    BY <1>1 DEF Inv, ClientInv, TxnOK
  <2>3. txn'[p] = x
    BY <2>1 DEF Inv
  <2>4. /\ txn'[p].stage = "working" /\ Request(p)' = r /\ txn'[p].todo = Working(r)
        /\ txn'[p].kept = Kept(r) /\ txn'[p].held = txn[p].held
        /\ txn'[p] = [stage |-> txn'[p].stage, request |-> txn'[p].request, tries |-> txn'[p].tries,
                      todo |-> txn'[p].todo, held |-> txn'[p].held, kept |-> txn'[p].kept]
    BY <2>2, <2>3 DEF TxnOK, Request
  <2> HIDE DEF x
  <2>5. Guarantee(p) /\ TablesInv'
    <3>1. prepared' \in 0..MaxRequests /\ prepared <= prepared'
      BY <1>1, BoundsAssumption DEF Inv, Stored
    <3> QED
      BY <1>1, <3>1, QuietGuarantee
  <2>6. Working(r) \in Seq(Locks)
        /\ (r.op \in Links => X(Scope(tasks[r.task].parent)) \in Range(Working(r)))
        /\ (r.op \in Answers => X(Scope(asks[r.other].scope)) \in Range(Working(r)))
        /\ (r.op = "move" => {X(Scope(tasks[r.task].parent)), X(Scope(r.other)), X(Task(r.task))}
                              \subseteq Range(Working(r)))
    BY <2>2, WorkingLocks DEF Inv
  <2>7. TxnOK(p)'
    <3>1. RequestOK(r)'
      BY <1>1, <2>2 DEF RequestOK, Born, rows
    <3>2. RequestOK(Request(p))'
      BY <1>1, <2>4, <3>1 DEF RequestOK, Born
    <3> QED
      BY <2>2, <2>4, <2>6, <3>2 DEF TxnOK
  <2>8. Under(p)' /\ ~Closes(p)'
    BY <2>4 DEF Under, Closes
  <2>9. r.op \in Links \cup {"move"} => Kept(r) = tasks[r.task].parent
    BY DEF Kept, Links
  <2>10. Claimed(p)'
    <3>1. r.op \in OpensProject => X(Project) \in txn[p].held
      BY <1>1, <2>2, NoLock DEF Claimed, Claims
    <3>2. r.op \in Links => EdgeScope(p)' = tasks[r.task].parent
      BY <2>4, <2>9 DEF EdgeScope, Links, Answers
    <3>3. r.op \in Answers => EdgeScope(p)' = asks[r.other].scope
      BY <1>1, <2>4 DEF EdgeScope, rows
    <3>4. Guards(p)' \subseteq Range(Working(r))
      BY <2>4, <2>6, <2>9, <3>2, <3>3 DEF Guards, Links, Answers
    <3> QED
      BY <2>4, <2>8, <3>1, <3>4 DEF Claimed, Claims
  <2>11. Standing(p)'
    <3>1. r.op = "archive" => Kept(r) = Versions(Subtree(r.task))
      BY DEF Kept, Links
    <3>2. Versions(Subtree(r.task))' = Versions(Subtree(r.task)) /\ Exists(r.task)' = Exists(r.task)
      BY <1>1, SameTree DEF rows
    <3>3. r.op \in Links \cup {"move"} => r.task \in Tasks /\ tasks[r.task].parent \in ScopeIds
      BY <2>2, StoredFacts DEF RequestOK, ScopeIds, Links, Inv
    <3>4. /\ r.op = "create" => r.task = Root \/ Exists(r.task)
          /\ r.op \in Destructions => Exists(r.task)
      BY <1>3 DEF Prepared, Destructions
    <3> QED
      BY <2>4, <2>8, <2>9, <3>1, <3>2, <3>3, <3>4 DEF Standing
  <2>12. SpentOnce(p)'
    BY <1>1, <2>4, <2>5, SpentSame
  <2>13. Fresh(p)'
    <3>1. ASSUME r.op \in Recording \cup Answers PROVE effects[<<r.key, Root>>] = 0
      <4>1. ~Spent(r, Root)
        BY <1>3, <3>1 DEF Spent, Prepared
      <4> QED
        BY <2>2, <4>1, NotSpent DEF Inv, ScopeIds
    <3> QED
      BY <1>1, <2>4, <2>8, <3>1 DEF Fresh
  <2>14. StillSound(p)'
    BY <2>8 DEF StillSound
  <2>15. ClientInv(p)'
    BY <2>7, <2>10, <2>11, <2>12, <2>13, <2>14 DEF ClientInv
  <2>16. SameOrNext(p) /\ NoConflict(p)
    BY <2>4, FewerLocks DEF SameOrNext, Inv
  <2> QED
    BY <2>1, <2>5, <2>15, <2>16, Assembled
<1> QED
  BY <1>2, <1>3

\* What each kind of request is checked for.
LEMMA AllowedCases ==
  ASSUME NEW r, NEW kept, Allowed(r, kept)
  PROVE  /\ r.op = "create" => CreateAllowed(r)
         /\ r.op \in Edits => EditAllowed(r)
         /\ r.op \in Links => LinkAllowed(r, kept)
         /\ r.op = "accept" => AcceptAllowed(r)
         /\ r.op = "move" => MoveAllowed(r, kept)
         /\ r.op = "archive" => ArchiveAllowed(r, kept)
         /\ r.op = "delete" => DeleteAllowed(r, kept)
BY DEF Allowed, Edits, Blocks, Links, Follows

\* What a transaction decided on is sound, and never happened before.
LEMMA DecideStep ==
  ASSUME Inv, NEW p \in Clients, Decide(p)
  PROVE  Inv'
<1> PICK r, kept : r = Request(p) /\ kept = txn[p].kept
  OBVIOUS
<1> DEFINE x == [txn[p] EXCEPT !.stage = "closing", !.todo = Closing(r), !.kept = Decided(r, kept)]
<1>1. UNCHANGED <<rows, recorded, prepared, effects>> /\ txn[p].stage = "working" /\ txn[p].todo = <<>>
      /\ Allowed(r, kept)
  BY DEF Decide, At
<1>2. TxnOK(p) /\ Claimed(p) /\ Standing(p) /\ SpentOnce(p) /\ Fresh(p) /\ r # NoRequest /\ RequestOK(r)
  BY <1>1 DEF Inv, ClientInv, TxnOK, Under
<1>3. txn' = [txn EXCEPT ![p] = x]
  BY DEF Decide, Inv
<1>4. txn'[p] = x
  BY <1>3 DEF Inv
<1>5. /\ txn'[p].stage = "closing" /\ Request(p)' = r /\ txn'[p].todo = Closing(r)
      /\ txn'[p].kept = Decided(r, kept) /\ txn'[p].held = txn[p].held
      /\ txn'[p] = [stage |-> txn'[p].stage, request |-> txn'[p].request, tries |-> txn'[p].tries,
                    todo |-> txn'[p].todo, held |-> txn'[p].held, kept |-> txn'[p].kept]
  BY <1>2, <1>4 DEF TxnOK, Request
<1> HIDE DEF x
<1>6. Guarantee(p) /\ TablesInv'
  <2>1. prepared' \in 0..MaxRequests /\ prepared <= prepared'
    BY <1>1, BoundsAssumption DEF Inv, Stored
  <2> QED
    BY <1>1, <2>1, QuietGuarantee
<1>7. /\ Closing(r) \in Seq(Locks)
      /\ r.op \notin OpensProject => K(Project) \in Range(Closing(r))
      /\ r.op = "archive" =>
           \A u \in Subtree(r.task) : N(Scope(tasks[u].parent)) \in Range(Closing(r))
  BY <1>2, ClosingLocks DEF Inv
<1>8. TxnOK(p)'
  <2>1. RequestOK(r)'
    BY <1>1, <1>2 DEF RequestOK, Born, rows
  <2>2. RequestOK(Request(p))'
    BY <1>1, <1>5, <2>1 DEF RequestOK, Born
  <2> QED
    BY <1>2, <1>5, <1>7, <2>2 DEF TxnOK
<1>9. Under(p)' /\ Closes(p)' /\ Under(p) /\ ~Closes(p)
  BY <1>1, <1>5 DEF Under, Closes
<1>10. /\ r.op \in Links => Decided(r, kept) = [direct |-> LinksDirectly(r), scope |-> kept]
       /\ r.op = "complete" => Decided(r, kept) = EffectiveOwner(r.task)
       /\ r.op = "delete" => Decided(r, kept) = Subtree(r.task)
       /\ r.op \in {"move", "archive"} => Decided(r, kept) = kept
  BY DEF Decided, Links
<1>11. r.op \in Links \cup Answers => EdgeScope(p)' = EdgeScope(p)
  BY <1>1, <1>5, <1>10 DEF EdgeScope, Links, Answers, rows
<1>12. Claimed(p)'
  <2>1. Guards(p)' = Guards(p)
    BY <1>5, <1>10, <1>11 DEF Guards, Links, Answers
  <2>2. Guards(p) \subseteq txn[p].held
    BY <1>1, <1>2, <1>9, NoLock DEF Claimed, Claims
  <2>3. r.op \in OpensProject => X(Project) \in txn[p].held
    BY <1>2, <1>9 DEF Claimed
  <2>4. ASSUME r.op = "archive"
        PROVE  \A u \in DOMAIN Decided(r, kept) : N(Scope(tasks'[u].parent)) \in Range(Closing(r))
    <3>1. kept = Versions(Subtree(r.task))
      BY <1>2, <2>4 DEF Standing
    <3>2. DOMAIN Decided(r, kept) = Subtree(r.task)
      BY <1>10, <2>4, <3>1 DEF Versions
    <3> QED
      BY <1>1, <1>7, <2>4, <3>2 DEF rows
  <2> QED
    BY <1>5, <1>7, <1>9, <2>1, <2>2, <2>3, <2>4 DEF Claimed, Claims
<1>13. Standing(p)'
  <2>1. /\ Exists(r.task)' = Exists(r.task) /\ Subtree(r.task)' = Subtree(r.task)
        /\ Versions(Subtree(r.task))' = Versions(Subtree(r.task))
    BY <1>1, SameTree DEF rows
  <2>2. r.op = "complete" => Decided(r, kept) \in Owner
    <3>1. r.op = "complete" => r.task \in Tasks
      BY <1>2 DEF RequestOK, ScopeIds
    <3> QED
      BY <1>10, <3>1, OwnerType DEF Inv, Stored, Owner
  <2>3. r.op = "create" => \E u \in Tasks : tasks'[u].life = "unborn"
    BY <1>1, AllowedCases DEF CreateAllowed, rows
  <2>4. r.op \in Links => Decided(r, kept).scope = kept /\ kept \in ScopeIds
    BY <1>2, <1>9, <1>10 DEF Standing
  <2>5. /\ r.op = "create" => r.task = Root \/ Exists(r.task)
        /\ r.op \in Destructions => Exists(r.task)
        /\ r.op = "archive" => kept = Versions(Subtree(r.task))
        /\ r.op = "move" => kept \in ScopeIds
    BY <1>2 DEF Standing
  <2> QED
    BY <1>5, <1>9, <1>10, <2>1, <2>2, <2>3, <2>4, <2>5 DEF Standing
<1>14. SpentOnce(p)'
  BY <1>1, <1>5, <1>6, SpentSame
<1>15. Fresh(p)'
  <2> DEFINE s == IF r.op \in Links THEN kept ELSE Root
  <2>1. EffectScope(p)' = s /\ s \in ScopeIds
    BY <1>2, <1>5, <1>9, <1>10 DEF EffectScope, Standing, ScopeIds
  <2>2. r.op \in Edits \cup Versioned => r.task \in Tasks /\ Exists(r.task) /\ tasks[r.task].version \in Nat
    <3>1. r.op \in Edits \cup Versioned => r.task \in Tasks
      BY <1>2 DEF RequestOK, ScopeIds, Edits, Blocks, Versioned, Destructions
    <3>2. r.op \in Edits \cup Versioned => Exists(r.task)
      BY <1>1, <1>2, AllowedCases DEF EditAllowed, Live, Exists, MoveAllowed, Standing, Versioned
    <3> QED
      BY <3>1, <3>2 DEF Inv, Stored, Row
  <2>3. ASSUME r.op \in Edits PROVE r.shown[1] = tasks[r.task].version
    <3>1. r.shown = <<tasks[r.task].version>>
      BY <1>1, <2>3, AllowedCases, Zenon DEF EditAllowed, EditView
    <3> QED
      BY <3>1
  <2>4. r.op \in Versioned => r.shown[2] = tasks[r.task].version
    <3>1. ASSUME r.op = "move" PROVE r.shown[2] = tasks[r.task].version
      <4>1. r.shown = MoveView(r.task, r.other)
        BY <1>1, <3>1, AllowedCases, Zenon DEF MoveAllowed
      <4> QED
        BY <4>1 DEF MoveView
    <3>2. r.op = "delete" => r.shown[2] = tasks[r.task].version
      BY <1>1, AllowedCases DEF DeleteAllowed, SubtreeView
    <3>3. ASSUME r.op = "archive" PROVE r.shown[2] = tasks[r.task].version
      <4>1. kept = Versions(Subtree(r.task)) /\ r.task \in Subtree(r.task)
        BY <1>2, <2>2, <3>3, SubtreeBounds DEF Standing, Inv, Stored, Versioned, Destructions
      <4>2. kept[r.task] = tasks[r.task].version
        BY <4>1 DEF Versions
      <4>3. r.shown = [SubtreeView(r.task) EXCEPT ![2] = kept[r.task]]
        BY <1>1, <3>3, AllowedCases DEF ArchiveAllowed
      <4> QED
        BY <4>2, <4>3 DEF SubtreeView
    <3> QED
      BY <3>1, <3>2, <3>3 DEF Versioned, Destructions
  <2>5. r.op \in Links => /\ kept \in ScopeIds /\ graph[kept] \in Nat /\ r.shown[1] = graph[kept]
                          /\ kept # Root => Exists(kept)
    <3>1. r.op \in Links => kept \in ScopeIds
      BY <1>2, <1>9 DEF Standing
    <3> QED
      BY <1>1, <3>1, AllowedCases DEF LinkAllowed, Inv, Stored
  <2>6. /\ r.op \in Edits => Reached(r.task, r.shown[1])
        /\ r.op \in Versioned => Reached(r.task, r.shown[2])
        /\ r.op \in Links => ScopeReached(kept, r.shown[1])
    BY <2>2, <2>3, <2>4, <2>5 DEF Reached, ScopeReached
  <2>7. /\ r.op \in Edits => ~Passed(r.task, r.shown[1])
        /\ r.op \in Versioned => ~Passed(r.task, r.shown[2])
        /\ r.op \in Links => ~ScopePassed(kept, r.shown[1])
    BY <2>2, <2>3, <2>4, <2>5 DEF Passed, ScopePassed, Deleted, Exists
  <2>8. ASSUME r.op \notin Follows PROVE effects[<<r.key, s>>] = 0
    <3>1. CASE r.op \in Recording \cup Answers
      <4>1. s = Root
        BY <3>1 DEF Recording, Answers, Links
      <4> QED
        BY <1>2, <1>9, <3>1, <4>1 DEF Fresh
    <3>2. CASE r.op \in Edits \cup Versioned \cup Links
      <4>1. ~Spent(r, s)
        BY <2>7, <3>2 DEF Spent
      <4> QED
        BY <1>2, <2>1, <4>1, NotSpent DEF Inv
    <3> QED
      BY <1>2, <2>8, <3>1, <3>2
         DEF RequestOK, Ops, Recording, Answers, Edits, Versioned, Links, Follows
  <2> HIDE DEF s
  <2>9. /\ r.op \in Edits => Reached(r.task, r.shown[1])'
        /\ r.op \in Versioned => Reached(r.task, r.shown[2])'
        /\ r.op \in Links => ScopeReached(kept, r.shown[1])'
    BY <1>1, <2>6 DEF Reached, ScopeReached, Deleted, rows
  <2>10. r.op \in Links => txn'[p].kept.scope = kept
    BY <1>5, <1>10
  <2>11. r.op \in Recording \cup Answers => effects[<<r.key, Root>>] = 0
    BY <1>2, <1>9 DEF Fresh
  <2> QED
    BY <1>1, <1>5, <1>9, <2>1, <2>8, <2>9, <2>10, <2>11 DEF Fresh, Reached, ScopeReached, Deleted
<1>16. StillSound(p)'
  <2> PICK e, s : e = NewEdge(p) /\ s = EdgeScope(p)
    OBVIOUS
  <2>1. ASSUME Inserts(p)
        PROVE  /\ e = NewEdge(p)' /\ s = EdgeScope(p)' /\ Born(e[1]) /\ Born(e[2])
               /\ Live(e[1]) /\ Live(e[2]) /\ ~Cyclic(ScopeEdges(s) \cup {e})
    <3>1. e = NewEdge(p)' /\ s = EdgeScope(p)'
      BY <1>1, <1>5, <1>11, <2>1 DEF NewEdge, Inserts, Links, Answers, rows
    <3>2. /\ Exists(e[1]) /\ Exists(e[2])
          /\ SoundEdges(ScopeEdges(s) \cup {e})
      <4>1. CASE r.op = "link"
        <5>1. e = <<r.task, r.other>> /\ s = kept
          BY <1>1, <4>1 DEF NewEdge, EdgeScope, Answers
        <5>2. EdgeChangeable("link", r.task, r.other, kept)
          BY <1>1, <4>1, AllowedCases DEF LinkAllowed, Links
        <5> QED
          BY <5>1, <5>2 DEF EdgeChangeable
      <4>2. CASE r.op = "accept" /\ asks[r.other].op = "link"
        <5>1. e = <<asks[r.other].pred, asks[r.other].succ>> /\ s = asks[r.other].scope
          BY <4>2 DEF NewEdge, EdgeScope, Answers
        <5>2. EdgeChangeable("link", asks[r.other].pred, asks[r.other].succ, asks[r.other].scope)
          BY <1>1, <4>2, AllowedCases DEF AcceptAllowed, Current
        <5> QED
          BY <5>1, <5>2 DEF EdgeChangeable
      <4> QED
        BY <2>1, <4>1, <4>2 DEF Inserts
    <3>3. Live(e[1]) /\ Live(e[2]) /\ ~Cyclic(ScopeEdges(s) \cup {e})
      BY <3>2 DEF SoundEdges
    <3> QED
      BY <3>1, <3>2, <3>3 DEF Exists, Born
  <2>2. Inserts(p)' = Inserts(p)
    BY <1>1, <1>5 DEF Inserts, rows
  <2>3. r.op = "move" => Inscope(r.task, kept) /\ Incident({r.task}) = {}
    BY <1>1, AllowedCases DEF MoveAllowed, Inscope
  <2>4. /\ Inserts(p) => /\ Born(e[1])' /\ Born(e[2])' /\ Live(e[1])' /\ Live(e[2])'
                         /\ ~Cyclic(ScopeEdges(s)' \cup {e})
        /\ r.op = "move" => Inscope(r.task, kept)' /\ Incident({r.task})' = {}
    BY <1>1, <2>1, <2>3 DEF Born, Live, ScopeEdges, Inscope, Exists, Incident, rows
  <2>5. r.op = "move" => txn'[p].kept = kept
    BY <1>5, <1>10
  <2>6. Inserts(p)' => /\ Born(NewEdge(p)[1])' /\ Born(NewEdge(p)[2])'
                       /\ Live(NewEdge(p)[1])' /\ Live(NewEdge(p)[2])'
                       /\ ~Cyclic(ScopeEdges(EdgeScope(p)) \cup {NewEdge(p)})'
    BY <2>1, <2>2, <2>4 DEF Born, Live, ScopeEdges
  <2>7. Request(p)'.op = "move" => Inscope(Request(p).task, txn[p].kept)' /\ Incident({Request(p).task})' = {}
    BY <1>5, <2>4, <2>5 DEF Inscope, Exists, Incident
  <2> QED
    BY <2>6, <2>7 DEF StillSound
<1>17. ClientInv(p)'
  BY <1>8, <1>12, <1>13, <1>14, <1>15, <1>16 DEF ClientInv
<1>18. SameOrNext(p) /\ NoConflict(p)
  BY <1>5, FewerLocks DEF SameOrNext, Inv
<1> QED
  BY <1>3, <1>6, <1>17, <1>18, Assembled

-----------------------------------------------------------------------------
(* The writes.                                                             *)

\* What a transaction that is about to write has and knows.
LEMMA Writer ==
  ASSUME Inv, NEW p \in Clients, At(p, "closing")
  PROVE  /\ TxnOK(p) /\ Standing(p) /\ SpentOnce(p) /\ Fresh(p) /\ StillSound(p)
         /\ Under(p) /\ Closes(p) /\ Request(p) # NoRequest /\ RequestOK(Request(p))
         /\ Holds(p, Project) /\ Guards(p) \subseteq txn[p].held
         /\ Request(p).op \in OpensProject => X(Project) \in txn[p].held
         /\ Request(p).op = "archive" =>
              \A u \in DOMAIN txn[p].kept : N(Scope(tasks[u].parent)) \in txn[p].held
<1>1. ClientInv(p) /\ txn[p].stage = "closing" /\ txn[p].todo = <<>>
  BY DEF Inv, At
<1>2. Under(p) /\ Closes(p)
  BY <1>1 DEF Under, Closes
<1>3. Claims(p) = txn[p].held
  BY <1>1, NoLock DEF Claims
<1>4. Holds(p, Project)
  <2>1. X(Project) \in txn[p].held \/ K(Project) \in txn[p].held
    BY <1>1, <1>2, <1>3 DEF ClientInv, Claimed
  <2>2. X(Project).lock = Project /\ K(Project).lock = Project
    BY DEF X, K
  <2> QED
    BY <2>1, <2>2 DEF Holds
<1>5. Request(p) # NoRequest /\ RequestOK(Request(p))
  BY <1>1 DEF ClientInv, TxnOK
<1>6. Claimed(p)
  BY <1>1 DEF ClientInv
<1> QED
  BY <1>1, <1>2, <1>3, <1>4, <1>5, <1>6 DEF ClientInv, Claimed

\* The count of effects and the record of answers.
LEMMA Finished ==
  ASSUME Inv, NEW p \in Clients, At(p, "closing"), Finish(p)
  PROVE  /\ Counted(p) /\ AppliedOnce' /\ prepared' = prepared
         /\ effects' \in [(1..MaxRequests) \X ScopeIds -> Nat]
         /\ recorded' \subseteq 1..prepared
         /\ Request(p).op \in Recording => Request(p).key \in recorded'
         /\ Request(p).op \in Follows => effects' = effects
         /\ EffectScope(p) \in ScopeIds
         /\ \A s \in ScopeIds : s # EffectScope(p) =>
              effects'[<<Request(p).key, s>>] = effects[<<Request(p).key, s>>]
         /\ txn' = [txn EXCEPT ![p] = Ended(p)]
<1> PICK r, s : r = Request(p) /\ s = EffectScope(p)
  OBVIOUS
<1> DEFINE Keyed == (1..MaxRequests) \X ScopeIds
<1>1. Standing(p) /\ Fresh(p) /\ Closes(p) /\ Under(p) /\ RequestOK(r)
  BY Writer
<1>2. s \in ScopeIds
  BY <1>1 DEF EffectScope, Standing, ScopeIds
<1>3. r.key \in 1..prepared /\ r.key \in 1..MaxRequests /\ prepared \in Nat
  BY <1>1, BoundsAssumption DEF RequestOK, Inv, Stored
<1>4. effects \in [Keyed -> Nat] /\ <<r.key, s>> \in Keyed
  BY <1>2, <1>3 DEF Inv, Stored
<1>5. /\ effects' = IF r.op \in Follows THEN effects ELSE [effects EXCEPT ![<<r.key, s>>] = @ + 1]
      /\ recorded' = IF r.op \in Recording THEN recorded \cup {r.key} ELSE recorded
      /\ prepared' = prepared /\ txn' = [txn EXCEPT ![p] = Ended(p)]
  BY DEF Finish, EffectScope
<1>6. recorded' \subseteq 1..prepared /\ recorded \subseteq recorded'
      /\ (r.op \in Recording => r.key \in recorded')
  BY <1>3, <1>5 DEF Inv, Stored
<1>7. r.op \notin Follows => effects[<<r.key, s>>] = 0
  BY <1>1 DEF Fresh
<1>8. effects' \in [Keyed -> Nat]
  BY <1>4, <1>5
<1>9. \A e \in Keyed : e # <<r.key, s>> => effects'[e] = effects[e]
  BY <1>4, <1>5
<1>10. AppliedOnce'
  <2>1. \A e \in Keyed : effects[e] <= 1
    BY <1>4 DEF Inv, AppliedOnce
  <2>2. effects'[<<r.key, s>>] <= 1
    BY <1>4, <1>5, <1>7, <2>1
  <2>3. \A e \in Keyed : effects'[e] <= 1
    BY <1>9, <2>1, <2>2
  <2> QED
    BY <1>8, <2>3 DEF AppliedOnce
<1>11. ASSUME NEW k \in 1..MaxRequests, NEW u \in ScopeIds, k # r.key \/ u # s
       PROVE  effects'[<<k, u>>] = effects[<<k, u>>]
  BY <1>9, <1>11
<1>12. Counted(p)
  BY <1>3, <1>5, <1>6, <1>11 DEF Counted
<1> HIDE DEF Keyed
<1>13. \A u \in ScopeIds : u # s => effects'[<<r.key, u>>] = effects[<<r.key, u>>]
  BY <1>3, <1>11
<1> QED
  BY <1>2, <1>5, <1>6, <1>8, <1>10, <1>12, <1>13 DEF Keyed

\* A write that leaves a trace by which its request is refused from then on.
LEMMA WriteEnds ==
  ASSUME Inv, NEW p \in Clients, At(p, "closing"), Finish(p),
         Guarantee(p), Rooted', DependenciesAreSound',
         NEW r, r = Request(p), NEW e, e = EffectScope(p), r.op \notin Follows => Spent(r, e)'
  PROVE  Inv'
<1>1. /\ AppliedOnce' /\ txn' = [txn EXCEPT ![p] = Ended(p)]
      /\ Request(p).op \in Follows => effects' = effects
      /\ \A s \in ScopeIds : s # EffectScope(p) =>
           effects'[<<Request(p).key, s>>] = effects[<<Request(p).key, s>>]
  BY Finished
<1>2. Request(p)' \in {NoRequest, Request(p)}
  BY <1>1, EndedShape
<1>3. SpentOnce(p)'
  <2>1. CASE Request(p).op \in Follows
    BY <1>1, <1>2, <2>1, SpentSame
  <2>2. CASE Request(p).op \notin Follows
    <3>1. RequestOK(r) /\ SpentOnce(p) /\ r # NoRequest
      BY Writer
    <3> SUFFICES ASSUME Request(p)' = r, NEW s \in ScopeIds, effects'[<<r.key, s>>] > 0
                 PROVE  Spent(r, s)'
      BY <1>2 DEF SpentOnce, Spent
    <3>2. CASE s = e
      BY <2>2, <3>2 DEF Spent
    <3>3. CASE s # e
      <4>1. Spent(r, s)
        BY <1>1, <3>1, <3>3 DEF SpentOnce
      <4> QED
        BY <3>1, <4>1, SpentStays DEF Inv, Guarantee, Counted
    <3> QED
      BY <3>2, <3>3
  <2> QED
    BY <2>1, <2>2
<1> QED
  BY <1>1, <1>3, EndedClient, Assembled DEF TablesInv

\* The fields of a row.
LEMMA RowFields ==
  ASSUME NEW a \in Row
  PROVE  /\ a = [life |-> a.life, parent |-> a.parent, status |-> a.status,
                 owner |-> a.owner, version |-> a.version]
         /\ a.version \in Nat
         /\ \A o \in Owner, s \in {"not_started", "in_progress", "done"} :
              [life |-> a.life, parent |-> a.parent, status |-> s,
               owner |-> o, version |-> a.version + 1] \in Row
<1>1. /\ a.life \in {"unborn", "live", "archived", "deleted"} /\ a.parent \in Tasks \cup {Root}
      /\ a.version \in Nat /\ a.version + 1 \in Nat
      /\ a = [life |-> a.life, parent |-> a.parent, status |-> a.status,
              owner |-> a.owner, version |-> a.version]
  BY DEF Row
<1>2. ASSUME NEW o \in Owner, NEW s \in {"not_started", "in_progress", "done"}
      PROVE  [life |-> a.life, parent |-> a.parent, status |-> s,
               owner |-> o, version |-> a.version + 1] \in Row
  BY <1>1 DEF Row, Owner
<1> QED
  BY <1>1, <1>2

TaskStates == {"not_started", "in_progress", "done"}

\* The tasks of S go one version up and stay in their places.
RowsUp(S) ==
  \A t \in Tasks :
    IF t \in S THEN \E o \in Owner, s \in TaskStates :
         tasks'[t] = [life |-> tasks[t].life, parent |-> tasks[t].parent, status |-> s,
                      owner |-> o, version |-> tasks[t].version + 1]
    ELSE tasks'[t] = tasks[t]

\* Rows that go one version up are rows, and their tasks advance.
LEMMA RowsUpFacts ==
  ASSUME Stored, NEW S \in SUBSET Tasks, RowsUp(S), tasks' = [t \in Tasks |-> tasks'[t]]
  PROVE  /\ tasks' \in [Tasks -> Row] /\ TasksAdvance
         /\ \A t \in Tasks : tasks'[t].life = tasks[t].life /\ tasks'[t].parent = tasks[t].parent
         /\ \A t \in S : tasks'[t].version = tasks[t].version + 1
<1>1. ASSUME NEW t \in Tasks
      PROVE  /\ tasks'[t] \in Row /\ tasks[t].version \in Nat /\ tasks'[t].version \in Nat
             /\ tasks'[t].life = tasks[t].life /\ tasks'[t].parent = tasks[t].parent
             /\ tasks'[t].version >= tasks[t].version
             /\ t \in S => tasks'[t].version = tasks[t].version + 1
  <2>1. tasks[t] \in Row
    BY DEF Stored
  <2>2. CASE t \in S
    <3>1. PICK o \in Owner, s \in TaskStates :
         tasks'[t] = [life |-> tasks[t].life, parent |-> tasks[t].parent, status |-> s,
                      owner |-> o, version |-> tasks[t].version + 1]
      BY <2>2 DEF RowsUp
    <3>2. PICK a \in Row : a = tasks[t]
      BY <2>1
    <3>3. a.version \in Nat /\ [life |-> a.life, parent |-> a.parent, status |-> s,
                                owner |-> o, version |-> a.version + 1] \in Row
      BY RowFields DEF TaskStates
    <3>4. tasks'[t] \in Row /\ tasks[t].version \in Nat
      BY <3>1, <3>2, <3>3
    <3> QED
      BY <3>1, <3>4
  <2>3. CASE t \notin S
    BY <2>1, <2>3, RowFields DEF RowsUp
  <2> QED
    BY <2>2, <2>3
<1>2. tasks' \in [Tasks -> Row]
  BY <1>1
<1>3. TasksAdvance
  BY <1>1 DEF TasksAdvance, Born, Deleted
<1> QED
  BY <1>1, <1>2, <1>3

\* Whoever changes a task leaves it with a version nobody has seen.
Newer ==
  \A t \in Existing : tasks'[t] # tasks[t] =>
    \/ tasks'[t].version > tasks[t].version
    \/ tasks'[t].life = "deleted"

\* Editing a task, and completing, reopening or handing over tasks.
LEMMA RowsUpStep ==
  ASSUME Inv, NEW p \in Clients, At(p, "closing"), Finish(p),
         NEW S \in SUBSET Tasks, RowsUp(S), tasks' = [t \in Tasks |-> tasks'[t]],
         UNCHANGED <<edges, disabled, graph, follows, asks>>, blockers' \subseteq Tasks,
         NEW r, r = Request(p), r.op \in Edits \cup {"complete", "reopen", "own"},
         r.task \in S
  PROVE  Inv' /\ Newer
<1>1. Standing(p) /\ Fresh(p) /\ Closes(p) /\ Holds(p, Project) /\ RequestOK(r)
  BY Writer
<1>2. /\ Counted(p) /\ prepared' = prepared /\ recorded' \subseteq 1..prepared
      /\ effects' \in [(1..MaxRequests) \X ScopeIds -> Nat]
      /\ r.op \in Recording => r.key \in recorded'
  BY Finished
<1>3. /\ tasks' \in [Tasks -> Row] /\ TasksAdvance
      /\ \A t \in Tasks : tasks'[t].life = tasks[t].life /\ tasks'[t].parent = tasks[t].parent
      /\ \A t \in S : tasks'[t].version = tasks[t].version + 1
  BY RowsUpFacts DEF Inv
<1>4. Stored'
  BY <1>2, <1>3 DEF Inv, Stored
<1>5. ScopesAdvance /\ AsksAdvance
  BY DEF ScopesAdvance, AsksAdvance, Inv, Stored
<1>6. Guarantee(p) /\ Rooted' /\ DependenciesAreSound'
  BY <1>1, <1>2, <1>3, <1>4, <1>5, SamePlaces
<1>7. Spent(r, EffectScope(p))'
  <2>1. r.op \in Edits => Passed(r.task, r.shown[1])'
    <3> SUFFICES ASSUME r.op \in Edits PROVE Passed(r.task, r.shown[1])'
      OBVIOUS
    <3>1. Reached(r.task, r.shown[1])
      BY <1>1 DEF Fresh, Edits, Blocks, Follows
    <3>2. /\ tasks'[r.task].version = tasks[r.task].version + 1
          /\ tasks'[r.task].life = tasks[r.task].life /\ tasks[r.task].version \in Nat
      BY <1>3 DEF Inv, Stored, Row
    <3> QED
      BY <3>1, <3>2 DEF Reached, Passed, Deleted
  <2> QED
    BY <1>2, <2>1 DEF Spent, Edits, Blocks, Versioned, Destructions, Links, Answers, Recording
<1> PICK e : e = EffectScope(p)
  OBVIOUS
<1>8. Spent(r, e)'
  BY <1>7 DEF Spent, Edits, Blocks, Versioned, Destructions, Links, Answers, Recording
<1>9. Newer
  <2>1. \A t \in Tasks : tasks[t].version \in Nat
    BY DEF Inv, Stored, Row
  <2>2. \A t \in Tasks : t \notin S => tasks'[t] = tasks[t]
    BY DEF RowsUp
  <2> QED
    BY <1>3, <2>1, <2>2 DEF Newer, Existing
<1> QED
  BY <1>6, <1>8, <1>9, WriteEnds

\* One of them.
LEMMA OneRowUp ==
  ASSUME Stored, NEW t \in Tasks, NEW o \in Owner, NEW s \in TaskStates,
         tasks' = [tasks EXCEPT ![t] =
           [life |-> tasks[t].life, parent |-> tasks[t].parent, status |-> s,
            owner |-> o, version |-> tasks[t].version + 1]]
  PROVE  RowsUp({t}) /\ tasks' = [u \in Tasks |-> tasks'[u]]
<1>1. tasks = [u \in Tasks |-> tasks[u]]
  BY DEF Stored
<1> PICK row : row = [life |-> tasks[t].life, parent |-> tasks[t].parent, status |-> s,
                      owner |-> o, version |-> tasks[t].version + 1]
  OBVIOUS
<1>2. tasks' = [tasks EXCEPT ![t] = row]
  OBVIOUS
<1>3. tasks'[t] = row /\ (\A u \in Tasks : u # t => tasks'[u] = tasks[u])
      /\ tasks' = [u \in Tasks |-> tasks'[u]]
  BY <1>1, <1>2
<1> QED
  BY <1>3 DEF RowsUp

\* A row that is read.
LEMMA RowRead ==
  ASSUME Stored, NEW t \in Tasks
  PROVE  /\ tasks[t].owner \in Owner /\ tasks[t].status \in TaskStates
         /\ tasks[t] = [life |-> tasks[t].life, parent |-> tasks[t].parent, status |-> tasks[t].status,
                        owner |-> tasks[t].owner, version |-> tasks[t].version]
BY DEF Stored, Row, Owner, TaskStates

\* updateTask, changeStatus, addBlocker and resolveBlocker, in common.
LEMMA EditWrites ==
  ASSUME Inv, NEW p \in Clients, NEW op \in Edits, Edit(p, op),
         NEW s \in TaskStates, blockers' \subseteq Tasks,
         \/ s = tasks[Request(p).task].status /\ tasks' = NextRow(p)
         \/ tasks' = [NextRow(p) EXCEPT ![Request(p).task].status = s]
  PROVE  Inv' /\ Newer
<1> PICK r : r = Request(p)
  OBVIOUS
<1>1. At(p, "closing") /\ r.op = op /\ Finish(p)
      /\ UNCHANGED <<edges, disabled, graph, follows, asks>>
  BY DEF Edit, Writes
<1>2. r.task \in Tasks
  BY <1>1, Writer DEF RequestOK, ScopeIds, Edits, Blocks
<1> PICK a : a = tasks[r.task]
  OBVIOUS
<1>3. a = [life |-> a.life, parent |-> a.parent, status |-> a.status,
           owner |-> a.owner, version |-> a.version] /\ a.owner \in Owner
  BY <1>2, RowRead DEF Inv
<1> DEFINE up == [a EXCEPT !.version = a.version + 1]
           row == [life |-> a.life, parent |-> a.parent, status |-> s,
                   owner |-> a.owner, version |-> a.version + 1]
<1>4. NextRow(p) = [tasks EXCEPT ![r.task] = up]
  BY DEF NextRow
<1>5. tasks = [t \in Tasks |-> tasks[t]]
  BY DEF Inv, Stored
<1>6. tasks' = [tasks EXCEPT ![r.task] = row]
  <2>1. CASE s = a.status /\ tasks' = NextRow(p)
    <3>1. up = row
      BY <1>3, <2>1
    <3> QED
      BY <1>4, <2>1, <3>1, Zenon
  <2>2. CASE tasks' = [NextRow(p) EXCEPT ![r.task].status = s]
    <3>1. [up EXCEPT !.status = s] = row
      <4> PICK life, parent, status, owner, v, n :
            /\ a = [life |-> life, parent |-> parent, status |-> status, owner |-> owner, version |-> v]
            /\ n = v + 1
        BY <1>3
      <4>1. up = [life |-> life, parent |-> parent, status |-> status, owner |-> owner, version |-> n]
        OBVIOUS
      <4>2. row = [life |-> life, parent |-> parent, status |-> s, owner |-> owner, version |-> n]
        OBVIOUS
      <4>3. \A u : u = [life |-> life, parent |-> parent, status |-> status, owner |-> owner, version |-> n]
              => [u EXCEPT !.status = s] =
                 [life |-> life, parent |-> parent, status |-> s, owner |-> owner, version |-> n]
        OBVIOUS
      <4> HIDE DEF up, row
      <4> QED
        BY <4>1, <4>2, <4>3
    <3> HIDE DEF up, row
    <3>2. NextRow(p)[r.task] = up
      BY <1>2, <1>4, <1>5
    <3>3. tasks' = [NextRow(p) EXCEPT ![r.task] = [up EXCEPT !.status = s]]
      BY <2>2, <3>2, Zenon
    <3>4. tasks' = [NextRow(p) EXCEPT ![r.task] = row]
      BY <3>1, <3>3, Zenon
    <3> QED
      BY <1>2, <1>4, <1>5, <3>4
  <2> QED
    BY <2>1, <2>2
<1> HIDE DEF up
<1>7. RowsUp({r.task}) /\ tasks' = [t \in Tasks |-> tasks'[t]]
  BY <1>2, <1>3, <1>6, OneRowUp DEF Inv
<1> HIDE DEF row
<1> QED
  BY <1>1, <1>2, <1>7, RowsUpStep

\* Each of the four.
LEMMA EditStep ==
  ASSUME Inv, NEW p \in Clients,
         Update(p) \/ ChangeStatus(p) \/ AddBlocker(p) \/ ResolveBlocker(p)
  PROVE  Inv' /\ Newer
<1> USE DEF Update, ChangeStatus, AddBlocker, ResolveBlocker
<1>1. Edit(p, Request(p).op) /\ Request(p).op \in Edits
  BY DEF Edit, Writes, Edits, Blocks
<1>2. Request(p).task \in Tasks
  BY <1>1, Writer DEF Edit, Writes, RequestOK, ScopeIds, Edits, Blocks
<1>3. blockers' \subseteq Tasks
  BY <1>2 DEF Inv, Stored
<1>4. tasks[Request(p).task].status \in TaskStates /\ "in_progress" \in TaskStates
  BY <1>2, RowRead DEF Inv, TaskStates
<1> QED
  BY <1>1, <1>3, <1>4, EditWrites

\* completeTask writes the status and the owner.
LEMMA CompleteStep ==
  ASSUME Inv, NEW p \in Clients, Complete(p)
  PROVE  Inv' /\ Newer
<1> PICK r, owner : r = Request(p) /\ owner = txn[p].kept
  OBVIOUS
<1>1. At(p, "closing") /\ r.op = "complete" /\ Finish(p)
      /\ UNCHANGED <<edges, disabled, graph, follows, blockers, asks>>
      /\ tasks' = [tasks EXCEPT ![r.task].status = "done", ![r.task].owner = owner,
                                ![r.task].version = @ + 1]
  BY DEF Complete, Writes
<1>2. r.task \in Tasks
  BY <1>1, Writer DEF RequestOK, ScopeIds
<1>3. owner \in Owner
  BY <1>1, Writer DEF Standing
<1> PICK a : a = tasks[r.task]
  OBVIOUS
<1>4. a = [life |-> a.life, parent |-> a.parent, status |-> a.status,
           owner |-> a.owner, version |-> a.version]
  BY <1>2, RowRead DEF Inv
<1>5. tasks = [t \in Tasks |-> tasks[t]]
  BY DEF Inv, Stored
<1>6. /\ tasks'[r.task] = [tasks[r.task] EXCEPT !.status = "done", !.owner = owner,
                                                !.version = tasks[r.task].version + 1]
      /\ \A t \in Tasks : t # r.task => tasks'[t] = tasks[t]
      /\ tasks' = [t \in Tasks |-> tasks'[t]]
  <2> PICK f, g : f = tasks /\ g = tasks'
    OBVIOUS
  <2>1. g = [f EXCEPT ![r.task].status = "done", ![r.task].owner = owner, ![r.task].version = @ + 1]
    BY <1>1
  <2>2. f = [t \in Tasks |-> f[t]]
    BY <1>5
  <2>3. g[r.task] = [f[r.task] EXCEPT !.status = "done", !.owner = owner, !.version = f[r.task].version + 1]
    BY <1>2, <2>1, <2>2
  <2>4. (\A t \in Tasks : t # r.task => g[t] = f[t]) /\ g = [t \in Tasks |-> g[t]]
    BY <1>2, <2>1, <2>2
  <2> QED
    BY <2>3, <2>4
<1>7. RowsUp({r.task})
  <2> PICK x, done, n : x = tasks'[r.task] /\ done = "done" /\ n = a.version + 1
    OBVIOUS
  <2>1. x = [a EXCEPT !.status = done, !.owner = owner, !.version = n]
    BY <1>6
  <2>2. x = [life |-> a.life, parent |-> a.parent, status |-> done,
             owner |-> owner, version |-> n]
    BY <1>4, <2>1
  <2>3. done \in TaskStates
    BY DEF TaskStates
  <2> SUFFICES ASSUME NEW t \in Tasks, t = r.task
               PROVE  \E o \in Owner, s \in TaskStates :
                 tasks'[t] = [life |-> tasks[t].life, parent |-> tasks[t].parent, status |-> s,
                              owner |-> o, version |-> tasks[t].version + 1]
    BY <1>6 DEF RowsUp
  <2> QED
    BY <1>3, <2>2, <2>3
<1>8. blockers' \subseteq Tasks
  BY <1>1 DEF Inv, Stored
<1>9. {r.task} \in SUBSET Tasks /\ r.task \in {r.task}
      /\ r.op \in Edits \cup {"complete", "reopen", "own"}
  BY <1>1, <1>2
<1> QED
  BY <1>1, <1>6, <1>7, <1>8, <1>9, RowsUpStep

\* reopenTask writes the task and the completed ones after it.
LEMMA ReopenStep ==
  ASSUME Inv, NEW p \in Clients, Reopen(p)
  PROVE  Inv' /\ Newer
<1> PICK r, S : r = Request(p) /\ S = CompletedClosure(r.task)
  OBVIOUS
<1>1. At(p, "closing") /\ r.op = "reopen" /\ Finish(p)
      /\ UNCHANGED <<edges, disabled, graph, follows, blockers, asks>>
      /\ tasks' = [t \in Tasks |-> IF t \in S
           THEN [tasks[t] EXCEPT !.status = "in_progress", !.version = @ + 1] ELSE tasks[t]]
  BY DEF Reopen, Writes
<1>2. r.task \in Tasks
  BY <1>1, Writer DEF RequestOK, ScopeIds
<1>3. S \in SUBSET Tasks /\ r.task \in S
  BY <1>2, ClosureBounds DEF Inv, Stored
<1>4. tasks' = [t \in Tasks |-> tasks'[t]]
  BY <1>1
<1>5. RowsUp(S)
  <2> SUFFICES ASSUME NEW t \in Tasks, t \in S
               PROVE  \E o \in Owner, s \in TaskStates :
                 tasks'[t] = [life |-> tasks[t].life, parent |-> tasks[t].parent, status |-> s,
                              owner |-> o, version |-> tasks[t].version + 1]
    BY <1>1 DEF RowsUp
  <2> PICK a : a = tasks[t]
    OBVIOUS
  <2>1. a = [life |-> a.life, parent |-> a.parent, status |-> a.status,
             owner |-> a.owner, version |-> a.version] /\ a.owner \in Owner
    BY RowRead DEF Inv
  <2>2. tasks'[t] = [a EXCEPT !.status = "in_progress", !.version = a.version + 1]
    BY <1>1
  <2>3. tasks'[t] = [life |-> a.life, parent |-> a.parent, status |-> "in_progress",
                     owner |-> a.owner, version |-> a.version + 1]
    BY <2>1, <2>2
  <2> QED
    BY <2>1, <2>3 DEF TaskStates
<1>6. blockers' \subseteq Tasks
  BY <1>1 DEF Inv, Stored
<1> QED
  BY <1>1, <1>2, <1>3, <1>4, <1>5, <1>6, RowsUpStep

\* The request itself is under the root of who inherits.
LEMMA InheritorsBounds ==
  ASSUME tasks \in [Tasks -> Row], NEW t \in Tasks
  PROVE  t \in Inheritors(t) /\ Inheritors(t) \subseteq Tasks
<1> DEFINE R == {e \in ParentOf : tasks[e[2]].owner = Inherit}
<1>1. \A e \in R : e[2] \in Tasks
  BY DEF ParentOf, Existing
<1>2. Inheritors(t) = Reach(R, {t})
  BY DEF Inheritors
<1> HIDE DEF R
<1> QED
  BY <1>1, <1>2, ReachBounds

\* changeOwner writes the task and who inherits from it.
LEMMA ChangeOwnerStep ==
  ASSUME Inv, NEW p \in Clients, ChangeOwner(p)
  PROVE  Inv' /\ Newer
<1> PICK r, S : r = Request(p) /\ S = Inheritors(r.task)
  OBVIOUS
<1>1. At(p, "closing") /\ r.op = "own" /\ Finish(p)
      /\ UNCHANGED <<edges, disabled, graph, follows, blockers, asks>>
      /\ tasks' = [t \in Tasks |-> IF t \in S
           THEN [tasks[t] EXCEPT !.owner = IF t = r.task THEN r.other ELSE @, !.version = @ + 1]
           ELSE tasks[t]]
  BY DEF ChangeOwner, Writes
<1>2. r.task \in Tasks /\ r.other \in Owner
  BY <1>1, Writer DEF RequestOK, ScopeIds
<1>3. S \in SUBSET Tasks /\ r.task \in S
  BY <1>2, InheritorsBounds DEF Inv, Stored
<1>4. tasks' = [t \in Tasks |-> tasks'[t]]
  BY <1>1
<1>5. RowsUp(S)
  <2> SUFFICES ASSUME NEW t \in Tasks, t \in S
               PROVE  \E o \in Owner, s \in TaskStates :
                 tasks'[t] = [life |-> tasks[t].life, parent |-> tasks[t].parent, status |-> s,
                              owner |-> o, version |-> tasks[t].version + 1]
    BY <1>1 DEF RowsUp
  <2> PICK a, o : a = tasks[t] /\ o = IF t = r.task THEN r.other ELSE a.owner
    OBVIOUS
  <2>1. a = [life |-> a.life, parent |-> a.parent, status |-> a.status,
             owner |-> a.owner, version |-> a.version] /\ o \in Owner /\ a.status \in TaskStates
    BY <1>2, RowRead DEF Inv
  <2>2. tasks'[t] = [a EXCEPT !.owner = o, !.version = a.version + 1]
    BY <1>1
  <2>3. tasks'[t] = [life |-> a.life, parent |-> a.parent, status |-> a.status,
                     owner |-> o, version |-> a.version + 1]
    BY <2>1, <2>2
  <2> QED
    BY <2>1, <2>3
<1>6. blockers' \subseteq Tasks
  BY <1>1 DEF Inv, Stored
<1> QED
  BY <1>1, <1>2, <1>3, <1>4, <1>5, <1>6, RowsUpStep

\* A change of one dependency: its scope's lock holds the others off.
LEMMA EdgeStep ==
  ASSUME Inv, NEW p \in Clients, At(p, "closing"), Finish(p),
         NEW op, NEW a \in Tasks, NEW b \in Tasks, NEW scope \in ScopeIds,
         scope = EdgeScope(p), X(Scope(scope)) \in txn[p].held, ChangeEdge(op, a, b, scope),
         op = "link" => Inserts(p) /\ NewEdge(p) = <<a, b>> /\ ~EdgeBroken(a, b, scope),
         asks' \in Seq(AskRow), AsksAdvance, UNCHANGED <<tasks, disabled, follows, blockers>>
  PROVE  /\ Guarantee(p) /\ Rooted' /\ DependenciesAreSound'
         /\ graph'[scope] = graph[scope] + 1 /\ graph[scope] \in Nat
<1> PICK e : e = <<a, b>>
  OBVIOUS
<1>1. /\ Counted(p) /\ prepared' = prepared /\ recorded' \subseteq 1..prepared
      /\ effects' \in [(1..MaxRequests) \X ScopeIds -> Nat]
  BY Finished
<1>2. /\ graph \in [ScopeIds -> Nat] /\ edges \subseteq Tasks \X Tasks
      /\ tasks \in [Tasks -> Row]
  BY DEF Inv, Stored
<1>3. /\ edges' = IF op = "link" THEN edges \cup {e} ELSE edges \ {e}
      /\ graph' = [graph EXCEPT ![scope] = @ + 1]
  BY DEF ChangeEdge
<1>4. /\ graph' \in [ScopeIds -> Nat] /\ graph'[scope] = graph[scope] + 1 /\ graph[scope] \in Nat
      /\ \A s \in ScopeIds : graph'[s] >= graph[s]
  BY <1>2, <1>3
<1>5. e \in Tasks \X Tasks /\ e[1] = a /\ e[2] = b
  OBVIOUS
<1>6. edges' \subseteq Tasks \X Tasks
  BY <1>2, <1>3, <1>5
<1>7. Stored'
  BY <1>1, <1>4, <1>6 DEF Inv, Stored
<1>8. TasksAdvance /\ ScopesAdvance
  BY <1>2, <1>4 DEF TasksAdvance, ScopesAdvance, Born, Deleted, Row
<1>9. ASSUME op = "link"
      PROVE  /\ tasks[a].parent = scope /\ tasks[b].parent = scope
             /\ Live(a) /\ Live(b) /\ ~Cyclic(ScopeEdges(scope) \cup {e})
  <2>1. Inscope(a, scope) /\ Inscope(b, scope)
    BY <1>9 DEF EdgeBroken, Inscope
  <2>2. StillSound(p) /\ Closes(p)
    BY Writer
  <2> PICK n, s : n = NewEdge(p) /\ s = EdgeScope(p)
    OBVIOUS
  <2>3. n = e /\ s = scope /\ n[1] = a /\ n[2] = b /\ Inserts(p)
    BY <1>5, <1>9
  <2>4. Inscope(n[1], s) /\ Inscope(n[2], s) => Live(n[1]) /\ Live(n[2]) /\ ~Cyclic(ScopeEdges(s) \cup {n})
    BY <2>2, <2>3 DEF StillSound
  <2> QED
    BY <2>1, <2>3, <2>4 DEF Inscope
<1>10. \A s \in ScopeIds : s # scope => ScopeEdges(s)' \subseteq ScopeEdges(s)
  BY <1>3, <1>5, <1>9 DEF ScopeEdges
<1>11. Holds(p, Scope(scope))
  <2>1. X(Scope(scope)).lock = Scope(scope)
    BY DEF X
  <2> QED
    BY <2>1 DEF Holds
<1>12. \A s \in ScopeIds : Undisturbed(s) \/ Holds(p, Scope(s))
  BY <1>10, <1>11 DEF Undisturbed, Inscope, Exists
<1>13. ASSUME NEW t \in Tasks, NEW s \in ScopeIds
       PROVE  Unmoved(t, s) \/ Holds(p, Scope(s))
  <2>1. CASE s = scope
    BY <1>11, <2>1
  <2>2. CASE s # scope
    <3>1. tasks[t].parent = s => edges' \cap {f \in edges' : f[1] = t \/ f[2] = t} \subseteq edges
      BY <1>3, <1>5, <1>9, <2>2
    <3> QED
      BY <3>1 DEF Unmoved, Inscope, Exists, Incident
  <2> QED
    BY <2>1, <2>2
<1>14. Guarantee(p)
  BY <1>1, <1>7, <1>8, <1>12, <1>13 DEF Guarantee
<1>15. Rooted'
  BY DEF Inv, Rooted, Existing, Exists
<1>16. DependenciesAreSound'
  <2>1. \A f \in edges : Siblings(f)
    BY SoundFacts DEF Inv
  <2>2. \A s \in ScopeIds : ~Cyclic(ScopeEdges(s))
    BY SoundFacts DEF Inv
  <2>3. \A f \in edges' : Siblings(f)'
    BY <1>3, <1>5, <1>9, <2>1 DEF Siblings, Live
  <2>4. ASSUME NEW s \in ScopeIds PROVE ~Cyclic(ScopeEdges(s)')
    <3>1. CASE s = scope /\ op = "link"
      <4>1. ScopeEdges(scope)' \subseteq ScopeEdges(scope) \cup {e}
        BY <1>3, <3>1 DEF ScopeEdges
      <4> QED
        BY <1>9, <3>1, <4>1, FewerEdgesFewerCycles
    <3>2. CASE s # scope \/ op # "link"
      <4>1. ScopeEdges(s)' \subseteq ScopeEdges(s)
        BY <1>3, <1>10, <3>2 DEF ScopeEdges
      <4> QED
        BY <2>2, <4>1, FewerEdgesFewerCycles
    <3> QED
      BY <3>1, <3>2
  <2> QED
    BY <1>7, <2>3, <2>4, SoundFrom
<1> QED
  BY <1>4, <1>14, <1>15, <1>16

\* A dependency changed directly: the scope's version moves past the request's.
LEMMA ChangeDependencyStep ==
  ASSUME Inv, NEW p \in Clients, ChangeDependency(p)
  PROVE  Inv'
<1> PICK r, scope : r = Request(p) /\ scope = txn[p].kept.scope
  OBVIOUS
<1>1. /\ At(p, "closing") /\ r.op \in Links /\ Finish(p)
      /\ ChangeEdge(r.op, r.task, r.other, scope) /\ txn[p].kept.direct
      /\ UNCHANGED <<tasks, disabled, follows, blockers, asks>>
      /\ ~Broken(r, txn[p].kept)
  BY DEF ChangeDependency, Writes
<1>2. Standing(p) /\ Fresh(p) /\ Closes(p) /\ Under(p) /\ RequestOK(r)
      /\ Guards(p) \subseteq txn[p].held
  BY <1>1, Writer
<1>3. r.task \in Tasks /\ r.other \in Tasks /\ scope \in ScopeIds
  BY <1>1, <1>2 DEF RequestOK, ScopeIds, Standing, Links
<1>4. EdgeScope(p) = scope /\ EffectScope(p) = scope
  BY <1>1, <1>2 DEF EdgeScope, EffectScope, Links, Answers, Closes
<1>5. X(Scope(scope)) \in txn[p].held
  <2>1. Guards(p) = {X(Scope(EdgeScope(p)))}
    BY <1>1 DEF Guards, Links
  <2> QED
    BY <1>2, <1>4, <2>1
<1>6. r.op = "link" => Inserts(p) /\ NewEdge(p) = <<r.task, r.other>>
                       /\ ~EdgeBroken(r.task, r.other, scope)
  BY <1>1 DEF Broken, LinkBroken, Inserts, NewEdge
<1>7. asks' \in Seq(AskRow) /\ AsksAdvance
  BY <1>1 DEF Inv, Stored, AsksAdvance
<1>8. /\ Guarantee(p) /\ Rooted' /\ DependenciesAreSound'
      /\ graph'[scope] = graph[scope] + 1 /\ graph[scope] \in Nat
  BY <1>1, <1>3, <1>4, <1>5, <1>6, <1>7, EdgeStep
<1>9. Spent(r, scope)'
  <2>1. ScopeReached(scope, r.shown[1])
    BY <1>1, <1>2 DEF Fresh, Links, Follows
  <2>2. ScopePassed(scope, r.shown[1])'
    BY <1>1, <1>8, <2>1 DEF ScopeReached, ScopePassed, Deleted
  <2> QED
    BY <1>1, <2>2 DEF Spent, Links, Recording, Edits, Blocks, Versioned, Destructions, Answers
<1> QED
  BY <1>1, <1>4, <1>8, <1>9, WriteEnds

\* A dependency changed by an answer, which is no longer pending.
LEMMA AcceptStep ==
  ASSUME Inv, NEW p \in Clients, AcceptRequest(p)
  PROVE  Inv' /\ AsksAdvance
<1> PICK r, a : r = Request(p) /\ a = asks[r.other]
  OBVIOUS
<1>1. /\ At(p, "closing") /\ r.op = "accept" /\ Finish(p)
      /\ ChangeEdge(a.op, a.pred, a.succ, a.scope)
      /\ asks' = [asks EXCEPT ![r.other].status = "accepted"]
      /\ UNCHANGED <<tasks, disabled, follows, blockers>>
      /\ ~Broken(r, txn[p].kept)
  BY DEF AcceptRequest, Writes
<1>2. RequestOK(r) /\ Guards(p) \subseteq txn[p].held
  BY <1>1, Writer
<1>3. r.other \in DOMAIN asks
  BY <1>1, <1>2 DEF RequestOK, Answers
<1>4. a.pred \in Tasks /\ a.succ \in Tasks /\ a.scope \in ScopeIds
  BY <1>3, StoredFacts DEF Inv, ScopeIds
<1>5. EdgeScope(p) = a.scope
  BY <1>1 DEF EdgeScope, Answers
<1>6. X(Scope(a.scope)) \in txn[p].held
  <2>1. Guards(p) = {X(Scope(EdgeScope(p)))}
    BY <1>1 DEF Guards, Links, Answers
  <2> QED
    BY <1>2, <1>5, <2>1
<1>7. a.op = "link" => Inserts(p) /\ NewEdge(p) = <<a.pred, a.succ>>
                       /\ ~EdgeBroken(a.pred, a.succ, a.scope)
  BY <1>1 DEF Broken, AcceptBroken, Inserts, NewEdge
<1>8. asks' \in Seq(AskRow) /\ AsksAdvance /\ asks'[r.other].status = "accepted"
  <2>1. "accepted" \in Statuses /\ "accepted" # "pending"
    BY DEF Statuses
  <2> QED
    BY <1>1, <1>3, <2>1, AskMarked DEF Inv
<1>9. Guarantee(p) /\ Rooted' /\ DependenciesAreSound'
  BY <1>1, <1>4, <1>5, <1>6, <1>7, <1>8, EdgeStep
<1> PICK e : e = EffectScope(p)
  OBVIOUS
<1>10. Spent(r, e)'
  BY <1>1, <1>8 DEF Spent, Links, Recording, Edits, Blocks, Versioned, Destructions, Answers
<1> QED
  BY <1>1, <1>8, <1>9, <1>10, WriteEnds

\* An answer that changes nothing but the request.
LEMMA RejectStep ==
  ASSUME Inv, NEW p \in Clients, RejectRequest(p)
  PROVE  Inv' /\ AsksAdvance
<1> PICK r, e : r = Request(p) /\ e = EffectScope(p)
  OBVIOUS
<1>1. /\ At(p, "closing") /\ r.op = "reject" /\ Finish(p)
      /\ asks' = [asks EXCEPT ![r.other].status = "rejected"]
      /\ UNCHANGED <<tasks, edges, disabled, graph, follows, blockers>>
  BY DEF RejectRequest, Writes
<1>2. RequestOK(r) /\ Holds(p, Project)
  BY <1>1, Writer
<1>3. r.other \in DOMAIN asks
  BY <1>1, <1>2 DEF RequestOK, Answers
<1>4. asks' \in Seq(AskRow) /\ AsksAdvance /\ asks'[r.other].status = "rejected"
  <2>1. "rejected" \in Statuses /\ "rejected" # "pending"
    BY DEF Statuses
  <2> QED
    BY <1>1, <1>3, <2>1, AskMarked DEF Inv
<1>5. /\ Counted(p) /\ prepared' = prepared /\ recorded' \subseteq 1..prepared
      /\ effects' \in [(1..MaxRequests) \X ScopeIds -> Nat]
  BY <1>1, Finished
<1>6. Stored'
  BY <1>1, <1>4, <1>5 DEF Inv, Stored
<1>7. Guarantee(p) /\ Rooted' /\ DependenciesAreSound'
  BY <1>1, <1>4, <1>5, <1>6, SameTasks, SamePlaces
<1>8. Spent(r, e)'
  BY <1>1, <1>4 DEF Spent, Links, Recording, Edits, Blocks, Versioned, Destructions, Answers
<1> QED
  BY <1>1, <1>4, <1>7, <1>8, WriteEnds

\* Following changes no task and is not counted.
LEMMA FollowStep ==
  ASSUME Inv, NEW p \in Clients, Follow(p)
  PROVE  Inv'
<1> PICK r, e : r = Request(p) /\ e = EffectScope(p)
  OBVIOUS
<1>1. /\ At(p, "closing") /\ r.op \in Follows /\ Finish(p)
      /\ follows' = IF r.op = "follow" THEN follows \cup {<<r.task, r.other>>}
                    ELSE follows \ {<<r.task, r.other>>}
      /\ UNCHANGED <<tasks, edges, disabled, graph, blockers, asks>>
  BY DEF Follow, Writes
<1>2. r.task \in Tasks /\ r.other \in Tasks
  BY <1>1, Writer DEF RequestOK, ScopeIds, Follows
<1>3. follows' \subseteq Tasks \X Tasks
  BY <1>1, <1>2 DEF Inv, Stored
<1>4. /\ Counted(p) /\ prepared' = prepared /\ recorded' \subseteq 1..prepared
      /\ effects' \in [(1..MaxRequests) \X ScopeIds -> Nat]
  BY <1>1, Finished
<1>5. Stored'
  BY <1>1, <1>3, <1>4 DEF Inv, Stored
<1>6. AsksAdvance
  BY <1>1 DEF AsksAdvance
<1>7. Guarantee(p) /\ Rooted' /\ DependenciesAreSound'
  BY <1>1, <1>4, <1>5, <1>6, SameTasks, SamePlaces
<1> QED
  BY <1>1, <1>7, WriteEnds

\* Every task has its parent if each has.
LEMMA RootedFrom ==
  ASSUME \A u \in Tasks : Exists(u)' =>
           \E s : s = tasks'[u].parent /\ (s = Root \/ Exists(s)')
  PROVE  Rooted'
BY DEF Rooted, Existing

\* A new task has no dependency, and its parent is still there.
LEMMA CreateStep ==
  ASSUME Inv, NEW p \in Clients, Create(p)
  PROVE  Inv' /\ Newer
<1> PICK r, e : r = Request(p) /\ e = EffectScope(p)
  OBVIOUS
<1> DEFINE Unborn == {u \in Tasks : tasks[u].life = "unborn"}
           Least(u) == tasks[u].life = "unborn"
                       /\ \A v \in Tasks : tasks[v].life = "unborn" => u <= v
<1>1. /\ At(p, "closing") /\ r.op = "create" /\ Finish(p)
      /\ tasks' = [tasks EXCEPT ![CHOOSE u \in Tasks : Least(u)] =
           [life |-> "live", parent |-> r.task, status |-> "not_started",
            owner |-> r.other, version |-> 1]]
      /\ UNCHANGED <<edges, disabled, graph, follows, blockers, asks>>
  BY DEF Create, Writes
<1>2. /\ Standing(p) /\ Closes(p) /\ Holds(p, Project) /\ RequestOK(r)
  BY <1>1, Writer
<1>3. r.task \in ScopeIds /\ r.other \in Owner /\ (r.task = Root \/ Exists(r.task))
  BY <1>1, <1>2 DEF RequestOK, Standing
<1>4. \E u \in Tasks : Least(u)
  <2>1. Unborn # {} /\ Unborn \in SUBSET Nat
    BY <1>1, <1>2, FiniteTasks DEF Standing
  <2> HIDE DEF Unborn
  <2>2. PICK u \in Unborn : \A v \in Unborn : u <= v
    BY <2>1, LeastNatural
  <2> QED
    BY <2>2 DEF Unborn
<1> PICK t : t = CHOOSE u \in Tasks : Least(u)
  OBVIOUS
<1>5. t \in Tasks /\ tasks[t].life = "unborn"
  BY <1>4
<1> PICK row : row = [life |-> "live", parent |-> r.task, status |-> "not_started",
                      owner |-> r.other, version |-> 1]
  OBVIOUS
<1>6. row \in Row
  BY <1>3 DEF Row, Owner, ScopeIds
<1>7. tasks \in [Tasks -> Row] /\ tasks' = [tasks EXCEPT ![t] = row]
  <2> HIDE DEF Least
  <2> QED
    BY <1>1 DEF Inv, Stored
<1> HIDE DEF Least, Unborn
<1>8. /\ tasks' \in [Tasks -> Row] /\ tasks'[t] = row
      /\ \A u \in Tasks : u # t => tasks'[u] = tasks[u]
  BY <1>5, <1>6, <1>7
<1>9. /\ Counted(p) /\ prepared' = prepared /\ recorded' \subseteq 1..prepared
      /\ effects' \in [(1..MaxRequests) \X ScopeIds -> Nat]
      /\ r.op \in Recording => r.key \in recorded'
  BY <1>1, Finished
<1>10. Stored'
  BY <1>1, <1>8, <1>9 DEF Inv, Stored
<1>11. TasksAdvance
  <2>1. \A u \in Tasks : tasks[u].version \in Nat
    BY DEF Inv, Stored, Row
  <2> QED
    <3> SUFFICES ASSUME NEW u \in Tasks, Born(u)
                 PROVE  /\ Born(u)' /\ (Deleted(u) => Deleted(u)')
                        /\ Deleted(u)' \/ tasks'[u].version >= tasks[u].version
      BY DEF TasksAdvance
    <3>1. u # t
      BY <1>5 DEF Born
    <3>2. tasks'[u] = tasks[u] /\ tasks[u].version \in Nat
      BY <1>8, <2>1, <3>1
    <3>3. tasks'[u].version >= tasks[u].version
      BY <3>2
    <3> QED
      BY <3>2, <3>3 DEF Born, Deleted
<1>12. ScopesAdvance /\ AsksAdvance
  BY <1>1 DEF ScopesAdvance, AsksAdvance, Inv, Stored
<1>13. \A f \in edges : f[1] \in Tasks /\ f[2] \in Tasks /\ f[1] # t /\ f[2] # t
  <2>1. \A f \in edges : Siblings(f)
    BY SoundFacts DEF Inv
  <2> QED
    BY <1>5, <2>1 DEF Siblings, Live, Inv, Stored
<1>14. \A s \in ScopeIds : Undisturbed(s)
  BY <1>1, <1>5, <1>8, <1>13 DEF Undisturbed, ScopeEdges, Inscope, Exists, Born
<1>15. \A u \in Tasks, s \in ScopeIds : Unmoved(u, s)
  BY <1>1, <1>5, <1>8 DEF Unmoved, Inscope, Exists, Incident
<1>16. Guarantee(p)
  BY <1>2, <1>9, <1>10, <1>11, <1>12, <1>14, <1>15 DEF Guarantee
<1>17. Rooted'
  <2>1. \A u \in Tasks : u # t => Exists(u)' = Exists(u)
    BY <1>8 DEF Exists
  <2>2. ~Exists(t) /\ tasks'[t].parent = r.task /\ t # Root
    <3>1. row.parent = r.task
      OBVIOUS
    <3> QED
      BY <1>5, <1>8, <3>1, FiniteTasks DEF Exists
  <2>3. \A u \in Tasks : tasks[u].parent \in ScopeIds
    BY <1>7 DEF Row, ScopeIds
  <2> SUFFICES ASSUME NEW u \in Tasks, Exists(u)'
               PROVE  \E s : s = tasks'[u].parent /\ (s = Root \/ Exists(s)')
    BY RootedFrom
  <2>4. CASE u = t
    <3>1. r.task = Root \/ Exists(r.task)'
      BY <1>3, <2>1, <2>2 DEF ScopeIds
    <3> QED
      BY <2>2, <2>4, <3>1
  <2>5. CASE u # t
    <3>1. tasks[u].parent = Root \/ Exists(tasks[u].parent)
      BY <2>1, <2>5 DEF Inv, Rooted, Existing
    <3> PICK s : s = tasks[u].parent /\ s = tasks'[u].parent
      BY <1>8, <2>5
    <3>2. s = Root \/ Exists(s)'
      BY <2>1, <2>2, <2>3, <3>1 DEF ScopeIds
    <3> QED
      BY <3>2
  <2> QED
    BY <2>4, <2>5
<1>18. DependenciesAreSound'
  BY <1>1, <1>8, <1>10, <1>13, SoundStays DEF Inv
<1>19. Spent(r, e)'
  BY <1>1, <1>9 DEF Spent, Links, Recording, Edits, Blocks, Versioned, Destructions, Answers
<1>20. Newer
  BY <1>5, <1>8 DEF Newer, Existing, Exists
<1> QED
  BY <1>1, <1>16, <1>17, <1>18, <1>19, <1>20, WriteEnds

\* A task that moves has no dependency, and its scopes' locks hold the others off.
LEMMA MoveStep ==
  ASSUME Inv, NEW p \in Clients, Move(p)
  PROVE  Inv' /\ Newer
<1> PICK r, e, t, o, k : /\ r = Request(p) /\ e = EffectScope(p) /\ k = txn[p].kept
                         /\ t = r.task /\ o = r.other
  OBVIOUS
<1>1. /\ At(p, "closing") /\ r.op = "move" /\ Finish(p)
      /\ tasks' = [tasks EXCEPT ![t].parent = o, ![t].version = @ + 1]
      /\ graph' = [graph EXCEPT ![tasks[t].parent] = @ + 1, ![o] = @ + 1]
      /\ UNCHANGED <<edges, disabled, follows, blockers, asks>>
      /\ ~Broken(r, k)
  BY DEF Move, Writes
<1>2. /\ Standing(p) /\ Fresh(p) /\ StillSound(p) /\ Closes(p) /\ Holds(p, Project) /\ RequestOK(r)
      /\ Guards(p) \subseteq txn[p].held
  BY <1>1, Writer
<1>3. t \in Tasks /\ o \in ScopeIds /\ k \in ScopeIds
  BY <1>1, <1>2 DEF RequestOK, ScopeIds, Standing, Closes, Under
<1>4. Deleted(t) \/ (Inscope(t, k) /\ Incident({t}) = {})
  BY <1>1, <1>2 DEF StillSound
<1>5. Holds(p, Scope(k)) /\ Holds(p, Scope(o))
  <2>1. Guards(p) = {X(Scope(k)), X(Scope(o)), X(Task(t))}
    BY <1>1 DEF Guards, Links, Answers
  <2>2. X(Scope(k)).lock = Scope(k) /\ X(Scope(o)).lock = Scope(o)
    BY DEF X
  <2> QED
    BY <1>2, <2>1, <2>2 DEF Holds
<1>6. tasks \in [Tasks -> Row] /\ graph \in [ScopeIds -> Nat] /\ tasks[t].parent \in ScopeIds
  BY <1>3, StoredFacts DEF Inv, Stored, ScopeIds
<1>7. /\ graph' \in [ScopeIds -> Nat] /\ \A s \in ScopeIds : graph'[s] >= graph[s]
  BY <1>1, <1>3, <1>6
<1>8. /\ tasks'[t] \in Row /\ tasks'[t].life = tasks[t].life /\ tasks'[t].parent = o
      /\ tasks'[t].version = tasks[t].version + 1 /\ tasks[t].version \in Nat
  <2> PICK f, g : f = tasks /\ g = tasks'
    OBVIOUS
  <2>1. f = [u \in Tasks |-> f[u]] /\ f[t] \in Row
    BY <1>3, <1>6
  <2>2. g = [f EXCEPT ![t].parent = o, ![t].version = @ + 1]
    BY <1>1
  <2>3. g[t] = [f[t] EXCEPT !.parent = o, !.version = f[t].version + 1]
    BY <1>3, <2>1, <2>2
  <2> PICK a, x, n : a = f[t] /\ x = g[t] /\ n = a.version + 1
    OBVIOUS
  <2>4. a = [life |-> a.life, parent |-> a.parent, status |-> a.status,
             owner |-> a.owner, version |-> a.version] /\ a.version \in Nat
    BY <2>1, RowFields
  <2>5. x = [a EXCEPT !.parent = o, !.version = n]
    BY <2>3
  <2>6. x = [life |-> a.life, parent |-> o, status |-> a.status, owner |-> a.owner, version |-> n]
    BY <2>4, <2>5
  <2>7. n \in Nat /\ a \in Row
    BY <2>1, <2>4
  <2>8. x \in Row
    BY <1>3, <2>6, <2>7 DEF Row, ScopeIds
  <2> QED
    BY <2>4, <2>6, <2>8
<1>9. tasks' \in [Tasks -> Row] /\ \A u \in Tasks : u # t => tasks'[u] = tasks[u]
  <2>1. tasks' = [u \in Tasks |-> tasks'[u]] /\ \A u \in Tasks : u # t => tasks'[u] = tasks[u]
    <3> PICK f, g : f = tasks /\ g = tasks'
      OBVIOUS
    <3>1. f = [u \in Tasks |-> f[u]]
      BY <1>6
    <3>2. g = [f EXCEPT ![t].parent = o, ![t].version = @ + 1]
      BY <1>1
    <3>3. (\A u \in Tasks : u # t => g[u] = f[u]) /\ g = [u \in Tasks |-> g[u]]
      BY <1>3, <3>1, <3>2
    <3> QED
      BY <3>3
  <2>2. \A u \in Tasks : tasks'[u] \in Row
    BY <1>6, <1>8, <2>1
  <2> QED
    BY <2>1, <2>2
<1>10. /\ Counted(p) /\ prepared' = prepared /\ recorded' \subseteq 1..prepared
       /\ effects' \in [(1..MaxRequests) \X ScopeIds -> Nat]
  BY <1>1, Finished
<1>11. Stored'
  BY <1>1, <1>7, <1>9, <1>10 DEF Inv, Stored
<1>12. \A u \in Tasks : tasks'[u].life = tasks[u].life /\ Exists(u)' = Exists(u)
  BY <1>8, <1>9 DEF Exists
<1>13. TasksAdvance
  <2>1. \A u \in Tasks : tasks[u].version \in Nat
    BY <1>6 DEF Row
  <2> QED
    BY <1>8, <1>9, <1>12, <2>1 DEF TasksAdvance, Born, Deleted
<1>14. ScopesAdvance /\ AsksAdvance
  BY <1>1, <1>7 DEF ScopesAdvance, AsksAdvance
<1>15. \A f \in edges : f[1] \in Tasks /\ f[2] \in Tasks /\ f[1] # t /\ f[2] # t
  <2>1. \A f \in edges : Siblings(f)
    BY SoundFacts DEF Inv
  <2>2. ASSUME NEW f \in edges PROVE f[1] # t /\ f[2] # t
    <3>1. CASE Deleted(t)
      BY <2>1, <3>1 DEF Siblings, Live, Deleted
    <3>2. CASE Incident({t}) = {}
      BY <3>2 DEF Incident
    <3> QED
      BY <1>4, <3>1, <3>2
  <2> QED
    BY <2>2 DEF Inv, Stored
<1>16. ASSUME NEW s \in ScopeIds PROVE Undisturbed(s) \/ Holds(p, Scope(s))
  <2>1. CASE s = o
    BY <1>5, <2>1
  <2>2. CASE s # o
    <3>1. ScopeEdges(s)' \subseteq ScopeEdges(s)
      BY <1>1, <1>9, <1>15 DEF ScopeEdges
    <3>2. \A u \in Tasks : Inscope(u, s)' => Inscope(u, s) /\ tasks'[u].life = tasks[u].life
      BY <1>8, <1>9, <1>12, <2>2 DEF Inscope
    <3> QED
      BY <3>1, <3>2 DEF Undisturbed
  <2> QED
    BY <2>1, <2>2
<1>17. ASSUME NEW u \in Tasks, NEW s \in ScopeIds
       PROVE  Unmoved(u, s) \/ Holds(p, Scope(s))
  <2>1. CASE u = t
    BY <1>4, <1>5, <2>1 DEF Unmoved, Inscope, Deleted, Exists
  <2>2. CASE u # t
    BY <1>1, <1>9, <1>12, <2>2 DEF Unmoved, Inscope, Incident
  <2> QED
    BY <2>1, <2>2
<1>18. Guarantee(p)
  BY <1>2, <1>10, <1>11, <1>13, <1>14, <1>16, <1>17 DEF Guarantee
<1>19. Rooted'
  <2>1. o = Root \/ Exists(o)
    BY <1>1 DEF Broken, MoveBroken
  <2> SUFFICES ASSUME NEW u \in Tasks, Exists(u)'
               PROVE  \E s : s = tasks'[u].parent /\ (s = Root \/ Exists(s)')
    BY RootedFrom
  <2> PICK s : s = tasks'[u].parent
    OBVIOUS
  <2>2. s \in ScopeIds
    BY <1>9 DEF Row, ScopeIds
  <2>3. s = Root \/ Exists(s)
    <3>1. CASE u = t
      BY <1>8, <2>1, <3>1
    <3>2. CASE u # t
      BY <1>9, <1>12, <3>2 DEF Inv, Rooted, Existing
    <3> QED
      BY <3>1, <3>2
  <2>4. s = Root \/ Exists(s)'
    BY <1>12, <2>2, <2>3 DEF ScopeIds
  <2> QED
    BY <2>4
<1>20. DependenciesAreSound'
  BY <1>1, <1>9, <1>11, <1>15, SoundStays DEF Inv
<1>21. Spent(r, e)'
  <2>1. Reached(t, r.shown[2])
    BY <1>1, <1>2 DEF Fresh, Versioned, Follows
  <2>2. Passed(t, r.shown[2])'
    BY <1>8, <2>1 DEF Reached, Passed, Deleted
  <2> QED
    BY <1>1, <2>2 DEF Spent, Links, Recording, Edits, Blocks, Answers
<1>22. Newer
  BY <1>8, <1>9 DEF Newer, Existing
<1> QED
  BY <1>1, <1>18, <1>19, <1>20, <1>21, <1>22, WriteEnds

\* An archive takes the dependencies of its tasks along, with the scopes locked, and
\* writes versions that are still those of the rows: the project's lock saw to it.
LEMMA ArchiveStep ==
  ASSUME Inv, NEW p \in Clients, Archive(p)
  PROVE  Inv' /\ Newer
<1> PICK r, e, t, kept, S, off :
      /\ r = Request(p) /\ e = EffectScope(p) /\ t = r.task /\ kept = txn[p].kept
      /\ S = DOMAIN kept /\ off = Incident(S)
  OBVIOUS
<1>1. /\ At(p, "closing") /\ r.op = "archive" /\ Finish(p)
      /\ tasks' = [u \in Tasks |-> IF u \in S
           THEN [tasks[u] EXCEPT !.life = "archived", !.version = kept[u] + 1] ELSE tasks[u]]
      /\ edges' = edges \ off /\ disabled' = disabled \cup off
      /\ graph' = [s \in DOMAIN graph |-> graph[s]
           + Cardinality({f \in off : tasks[f[1]].parent = s})
           + Cardinality({u \in S : Live(u) /\ tasks[u].parent = s})]
      /\ UNCHANGED <<follows, blockers, asks>>
  BY DEF Archive, Writes
<1>2. /\ Standing(p) /\ Fresh(p) /\ Closes(p) /\ Holds(p, Project) /\ RequestOK(r)
      /\ \A u \in S : N(Scope(tasks[u].parent)) \in txn[p].held
  BY <1>1, Writer
<1>3. t \in Tasks /\ Exists(t) /\ kept = Versions(Subtree(t))
  BY <1>1, <1>2 DEF RequestOK, ScopeIds, Standing, Destructions
<1>4. tasks \in [Tasks -> Row] /\ graph \in [ScopeIds -> Nat] /\ edges \subseteq Tasks \X Tasks
  BY DEF Inv, Stored
<1>5. S = Subtree(t) /\ \A u \in S : kept[u] = tasks[u].version
  BY <1>3 DEF Versions
<1>6. S \subseteq Tasks /\ t \in S /\ \A u \in S : Exists(u)
  BY <1>3, <1>4, <1>5, SubtreeBounds DEF Existing
<1>7. ASSUME NEW u \in Tasks, u \in S
      PROVE  /\ tasks'[u] \in Row /\ tasks'[u].life = "archived"
             /\ tasks'[u].parent = tasks[u].parent
             /\ tasks'[u].version = tasks[u].version + 1 /\ tasks[u].version \in Nat
  <2> PICK a, x, n, life : a = tasks[u] /\ x = tasks'[u] /\ n = a.version + 1 /\ life = "archived"
    OBVIOUS
  <2>1. a \in Row
    BY <1>4
  <2>2. a = [life |-> a.life, parent |-> a.parent, status |-> a.status,
             owner |-> a.owner, version |-> a.version] /\ a.version \in Nat
    BY <2>1, RowFields
  <2>3. x = [a EXCEPT !.life = life, !.version = n]
    BY <1>1, <1>5, <1>7
  <2>4. x = [life |-> life, parent |-> a.parent, status |-> a.status, owner |-> a.owner, version |-> n]
    BY <2>2, <2>3
  <2>5. x \in Row
    BY <2>1, <2>2, <2>4 DEF Row
  <2> QED
    BY <2>2, <2>4, <2>5
<1>8. tasks' \in [Tasks -> Row] /\ \A u \in Tasks : u \notin S => tasks'[u] = tasks[u]
  BY <1>1, <1>4, <1>7
<1>9. graph' \in [ScopeIds -> Nat] /\ \A s \in ScopeIds : graph'[s] >= graph[s]
  <2>1. ASSUME NEW s \in ScopeIds
        PROVE  graph'[s] \in Nat /\ graph'[s] >= graph[s]
    <3>1. /\ {f \in off : tasks[f[1]].parent = s} \in SUBSET (Tasks \X Tasks)
          /\ {u \in S : Live(u) /\ tasks[u].parent = s} \in SUBSET (Tasks \cup {Root})
      BY <1>4, <1>6 DEF Incident
    <3> PICK m, n : /\ m = Cardinality({f \in off : tasks[f[1]].parent = s})
                    /\ n = Cardinality({u \in S : Live(u) /\ tasks[u].parent = s})
      OBVIOUS
    <3>2. m \in Nat /\ n \in Nat /\ graph[s] \in Nat
      BY <1>4, <3>1, FiniteTasks
    <3>3. graph'[s] = graph[s] + m + n
      BY <1>1, <1>4
    <3> QED
      BY <3>2, <3>3
  <2>2. graph' = [s \in ScopeIds |-> graph'[s]]
    BY <1>1, <1>4
  <2> QED
    BY <2>1, <2>2
<1>10. /\ Counted(p) /\ prepared' = prepared /\ recorded' \subseteq 1..prepared
       /\ effects' \in [(1..MaxRequests) \X ScopeIds -> Nat]
  BY <1>1, Finished
<1>11. edges' \subseteq edges /\ edges' \subseteq Tasks \X Tasks /\ disabled' \subseteq Tasks \X Tasks
  BY <1>1, <1>4 DEF Incident, Inv, Stored
<1>12. Stored'
  BY <1>1, <1>8, <1>9, <1>10, <1>11 DEF Inv, Stored
<1>13. \A u \in Tasks : /\ Exists(u)' = Exists(u) /\ tasks'[u].parent = tasks[u].parent
                        /\ Deleted(u)' = Deleted(u)
  BY <1>6, <1>7, <1>8 DEF Exists, Deleted
<1>14. TasksAdvance
  <2>1. \A u \in Tasks : tasks[u].version \in Nat
    BY <1>4 DEF Row
  <2> SUFFICES ASSUME NEW u \in Tasks, Born(u)
               PROVE  Born(u)' /\ tasks'[u].version >= tasks[u].version
    BY <1>13 DEF TasksAdvance
  <2> QED
    BY <1>7, <1>8, <2>1 DEF Born
<1>15. ScopesAdvance /\ AsksAdvance
  BY <1>1, <1>9 DEF ScopesAdvance, AsksAdvance
<1>16. \A f \in edges' : f[1] \in Tasks /\ f[2] \in Tasks /\ f[1] \notin S /\ f[2] \notin S
  BY <1>1, <1>4 DEF Incident
<1>17. ASSUME NEW s \in ScopeIds PROVE Undisturbed(s) \/ Holds(p, Scope(s))
  <2>1. CASE \E u \in S : tasks[u].parent = s
    <3>1. N(Scope(s)) \in txn[p].held /\ N(Scope(s)).lock = Scope(s)
      BY <1>2, <2>1 DEF N
    <3> QED
      BY <3>1 DEF Holds
  <2>2. CASE \A u \in S : tasks[u].parent # s
    <3>1. ScopeEdges(s)' \subseteq ScopeEdges(s)
      BY <1>11, <1>13, <1>16 DEF ScopeEdges
    <3>2. \A u \in Tasks : Inscope(u, s)' => Inscope(u, s) /\ tasks'[u].life = tasks[u].life
      BY <1>8, <1>13, <2>2 DEF Inscope
    <3> QED
      BY <3>1, <3>2 DEF Undisturbed
  <2> QED
    BY <2>1, <2>2
<1>18. \A u \in Tasks, s \in ScopeIds : Unmoved(u, s)
  BY <1>11, <1>13 DEF Unmoved, Inscope, Incident
<1>19. Guarantee(p)
  BY <1>2, <1>10, <1>12, <1>14, <1>15, <1>17, <1>18 DEF Guarantee
<1>20. Rooted'
  <2> SUFFICES ASSUME NEW u \in Tasks, Exists(u)'
               PROVE  \E s : s = tasks'[u].parent /\ (s = Root \/ Exists(s)')
    BY RootedFrom
  <2> PICK s : s = tasks'[u].parent
    OBVIOUS
  <2>1. s \in ScopeIds /\ (s = Root \/ Exists(s))
    BY <1>13, StoredFacts DEF Inv, Rooted, Existing, ScopeIds
  <2> QED
    BY <1>13, <2>1 DEF ScopeIds
<1>21. DependenciesAreSound'
  BY <1>8, <1>11, <1>12, <1>16, SoundStays DEF Inv
<1>22. Spent(r, e)'
  <2>1. Reached(t, r.shown[2])
    BY <1>1, <1>2 DEF Fresh, Versioned, Destructions, Follows
  <2>2. Passed(t, r.shown[2])'
    BY <1>3, <1>6, <1>7, <1>13, <2>1 DEF Reached, Passed
  <2> QED
    BY <1>1, <2>2 DEF Spent, Links, Recording, Edits, Blocks, Answers
<1>23. Newer
  BY <1>7, <1>8 DEF Newer, Existing
<1> QED
  BY <1>1, <1>19, <1>20, <1>21, <1>22, <1>23, WriteEnds

\* A delete takes whole subtrees: the foreign key rolls back one that leaves a child.
LEMMA DeleteStep ==
  ASSUME Inv, NEW p \in Clients, Delete(p)
  PROVE  Inv' /\ Newer /\ AsksAdvance
<1> PICK r, e, t, S, s :
      /\ r = Request(p) /\ e = EffectScope(p) /\ t = r.task /\ S = txn[p].kept
      /\ s = tasks[t].parent
  OBVIOUS
<1> DEFINE gone == [life |-> "deleted", parent |-> Root, status |-> "not_started",
                    owner |-> Inherit, version |-> 0]
           Touched(q) == {asks[q].pred, asks[q].succ} \cap S # {}
<1>1. /\ At(p, "closing") /\ r.op = "delete" /\ Finish(p)
      /\ tasks' = [u \in Tasks |-> IF u \in S THEN gone ELSE tasks[u]]
      /\ edges' = edges \ Incident(S)
      /\ graph' = [u \in DOMAIN graph |->
           IF u = s THEN graph[s] + Cardinality(Incident({t})) + 1
           ELSE IF u \in S THEN 0 ELSE graph[u]]
      /\ follows' = {f \in follows : f[1] \notin S /\ f[2] \notin S}
      /\ blockers' = blockers \ S
      /\ asks' = [q \in DOMAIN asks |->
           IF ~Touched(q) THEN asks[q] ELSE [asks[q] EXCEPT !.status = "gone"]]
      /\ UNCHANGED disabled
  BY DEF Delete, Writes
<1>2. /\ Standing(p) /\ Fresh(p) /\ Closes(p) /\ Holds(p, Project) /\ RequestOK(r)
      /\ ~Broken(r, S)
  <2>1. ~Broken(r, S)
    BY DEF Delete, Writes
  <2> QED
    BY <1>1, <2>1, Writer
<1>3. t \in Tasks /\ Exists(t) /\ S = Subtree(t)
  BY <1>1, <1>2 DEF RequestOK, ScopeIds, Standing, Destructions
<1>4. tasks \in [Tasks -> Row] /\ graph \in [ScopeIds -> Nat] /\ edges \subseteq Tasks \X Tasks
  BY DEF Inv, Stored
<1>5. S \subseteq Tasks /\ t \in S /\ \A u \in S : Exists(u)
  BY <1>3, <1>4, SubtreeBounds DEF Existing
<1>6. \A u \in S : Children(u) \subseteq S
  BY <1>1, <1>2 DEF Broken, DeleteBroken
<1>7. gone \in Row /\ gone.life = "deleted"
  BY DEF Row
<1> HIDE DEF gone
<1>8. /\ tasks' \in [Tasks -> Row] /\ \A u \in Tasks : u \notin S => tasks'[u] = tasks[u]
      /\ \A u \in S : tasks'[u] = gone
  BY <1>1, <1>4, <1>5, <1>7
<1>9. /\ graph' \in [ScopeIds -> Nat]
      /\ \A u \in ScopeIds : u \notin S => graph'[u] >= graph[u]
  <2>1. Incident({t}) \in SUBSET (Tasks \X Tasks)
    BY <1>4 DEF Incident
  <2> PICK n : n = Cardinality(Incident({t}))
    OBVIOUS
  <2>2. n \in Nat
    BY <2>1, FiniteTasks
  <2>3. graph' = [u \in ScopeIds |-> IF u = s THEN graph[s] + n + 1
                                     ELSE IF u \in S THEN 0 ELSE graph[u]]
    BY <1>1, <1>4
  <2>4. s \in ScopeIds
    BY <1>3, StoredFacts DEF Inv, ScopeIds
  <2>5. graph[s] \in Nat
    BY <1>4, <2>4
  <2> PICK g, n1 : g = graph[s] /\ n1 = g + n + 1
    OBVIOUS
  <2>6. n1 \in Nat /\ n1 >= g
    BY <2>2, <2>5
  <2>7. graph' = [u \in ScopeIds |-> IF u = s THEN n1 ELSE IF u \in S THEN 0 ELSE graph[u]]
    BY <2>3
  <2>8. ASSUME NEW u \in ScopeIds
        PROVE  graph'[u] \in Nat /\ (u \notin S => graph'[u] >= graph[u])
    BY <1>4, <2>6, <2>7
  <2> QED
    BY <2>7, <2>8
<1>10. /\ Counted(p) /\ prepared' = prepared /\ recorded' \subseteq 1..prepared
       /\ effects' \in [(1..MaxRequests) \X ScopeIds -> Nat]
  BY <1>1, Finished
<1>11. /\ edges' \subseteq edges /\ edges' \subseteq Tasks \X Tasks
       /\ follows' \subseteq Tasks \X Tasks /\ blockers' \subseteq Tasks
  BY <1>1, <1>4 DEF Inv, Stored
<1>12. asks' \in Seq(AskRow) /\ AsksAdvance
  <2>1. Len(asks) \in Nat /\ DOMAIN asks = 1..Len(asks) /\ asks \in [DOMAIN asks -> AskRow]
    BY StoredFacts DEF Inv
  <2>2. ASSUME NEW q \in DOMAIN asks
        PROVE  /\ asks'[q] \in AskRow
               /\ asks'[q].op = asks[q].op /\ asks'[q].scope = asks[q].scope
               /\ asks'[q].pred = asks[q].pred /\ asks'[q].succ = asks[q].succ
               /\ asks[q].status # "pending" => asks'[q].status # "pending"
    <3>1. CASE ~Touched(q)
      <4>1. asks'[q] = asks[q]
        BY <1>1, <3>1
      <4> QED
        BY <2>1, <4>1
    <3>2. CASE Touched(q)
      <4> PICK a, x, status : a = asks[q] /\ x = asks'[q] /\ status = "gone"
        OBVIOUS
      <4>1. x = [a EXCEPT !.status = status]
        BY <1>1, <3>2
      <4>2. a \in AskRow /\ status \in Statuses
        BY <2>1 DEF Statuses
      <4>3. x = [op |-> a.op, pred |-> a.pred, succ |-> a.succ, scope |-> a.scope,
                 graph |-> a.graph, owners |-> a.owners, acceptor |-> a.acceptor, status |-> status]
        BY <4>1, <4>2 DEF AskRow
      <4>4. x \in AskRow
        BY <4>2, <4>3 DEF AskRow
      <4> QED
        BY <4>3, <4>4
    <3> QED
      BY <3>1, <3>2
  <2> HIDE DEF Touched
  <2>3. DOMAIN asks' = DOMAIN asks /\ asks' = [q \in 1..Len(asks) |-> asks'[q]]
    BY <1>1, <2>1
  <2>4. asks' \in Seq(AskRow)
    BY <2>1, <2>2, <2>3
  <2> QED
    BY <2>2, <2>3, <2>4 DEF AsksAdvance
<1>13. Stored'
  BY <1>1, <1>8, <1>9, <1>10, <1>11, <1>12 DEF Inv, Stored
<1>14. /\ \A u \in S : ~Exists(u)' /\ Deleted(u)' /\ Born(u)'
       /\ \A u \in Tasks : Exists(u)' => u \notin S /\ Exists(u)
       /\ \A u \in Tasks : u \notin S => (Exists(u)' = Exists(u) /\ Deleted(u)' = Deleted(u) /\ Born(u)' = Born(u))
  BY <1>5, <1>7, <1>8 DEF Exists, Deleted, Born
<1>15. TasksAdvance
  <2> SUFFICES ASSUME NEW u \in Tasks, Born(u), u \notin S
               PROVE  tasks'[u].version >= tasks[u].version
    BY <1>14 DEF TasksAdvance
  <2>1. tasks[u].version \in Nat /\ tasks'[u] = tasks[u]
    BY <1>4, <1>8 DEF Row
  <2> QED
    BY <2>1
<1>16. ScopesAdvance
  BY <1>5, <1>9, <1>14, FiniteTasks DEF ScopesAdvance
<1>17. \A f \in edges' : f[1] \in Tasks /\ f[2] \in Tasks /\ f[1] \notin S /\ f[2] \notin S
  BY <1>1, <1>4 DEF Incident
<1>18. \A x \in ScopeIds : Undisturbed(x)
  BY <1>8, <1>11, <1>14, <1>17 DEF Undisturbed, ScopeEdges, Inscope
<1>19. \A u \in Tasks, x \in ScopeIds : Unmoved(u, x)
  BY <1>8, <1>11, <1>14 DEF Unmoved, Inscope, Incident
<1>20. Guarantee(p)
  BY <1>2, <1>10, <1>12, <1>13, <1>15, <1>16, <1>18, <1>19 DEF Guarantee
<1>21. Rooted'
  <2> SUFFICES ASSUME NEW u \in Tasks, Exists(u)'
               PROVE  \E x : x = tasks'[u].parent /\ (x = Root \/ Exists(x)')
    BY RootedFrom
  <2>1. u \notin S /\ Exists(u) /\ tasks'[u] = tasks[u]
    BY <1>8, <1>14
  <2> PICK x : x = tasks'[u].parent
    OBVIOUS
  <2>2. x \in ScopeIds /\ (x = Root \/ Exists(x)) /\ tasks[u].parent = x
    BY <2>1, StoredFacts DEF Inv, Rooted, Existing, ScopeIds
  <2>3. x \notin S
    BY <1>6, <2>1, <2>2 DEF Children, Existing
  <2> QED
    BY <1>14, <2>2, <2>3 DEF ScopeIds
<1>22. DependenciesAreSound'
  BY <1>8, <1>11, <1>13, <1>17, SoundStays DEF Inv
<1>23. Spent(r, e)'
  <2>1. Reached(t, r.shown[2])
    BY <1>1, <1>2 DEF Fresh, Versioned, Destructions, Follows
  <2>2. Passed(t, r.shown[2])'
    BY <1>5, <1>14, <2>1 DEF Reached, Passed
  <2> QED
    BY <1>1, <2>2 DEF Spent, Links, Recording, Edits, Blocks, Answers
<1>24. Newer
  BY <1>7, <1>8 DEF Newer, Existing
<1> QED
  BY <1>1, <1>12, <1>20, <1>21, <1>22, <1>23, <1>24, WriteEnds

-----------------------------------------------------------------------------
(* The invariant.                                                          *)

\* The trees a behaviour starts from.
LEMMA InitInv == Init => Inv
<1> SUFFICES ASSUME Init PROVE Inv
  OBVIOUS
<1> PICK seed \in Seeds : tasks = seed.tasks /\ edges = seed.edges
  BY DEF Init
<1>1. /\ seed \in [tasks : [Tasks -> Row], edges : SUBSET (Tasks \X Tasks)]
      /\ SoundSeed(tasks, edges)
  BY SeedsAssumption
<1>2. /\ disabled = {} /\ follows = {} /\ blockers = {} /\ asks = <<>> /\ recorded = {}
      /\ graph = [s \in ScopeIds |-> 0] /\ prepared = 0
      /\ txn = [p \in Clients |-> Idle]
      /\ effects = [e \in (1..MaxRequests) \X ScopeIds |-> 0]
  BY DEF Init, ScopeIds
<1>3. tasks \in [Tasks -> Row] /\ edges \subseteq Tasks \X Tasks
  BY <1>1
<1>4. Stored
  <2>1. asks \in Seq(AskRow) /\ graph \in [ScopeIds -> Nat] /\ prepared \in 0..MaxRequests
        /\ effects \in [(1..MaxRequests) \X ScopeIds -> Nat]
    BY <1>2, BoundsAssumption
  <2> QED
    BY <1>2, <1>3, <2>1 DEF Stored
<1>5. Rooted
  <2>1. \A t \in Tasks : Exists(t) /\ tasks[t].parent # Root => Exists(tasks[t].parent)
    BY <1>1 DEF SoundSeed, Exists
  <2> QED
    BY <2>1 DEF Rooted, Existing
<1>6. DependenciesAreSound
  <2>1. \A e \in edges : Siblings(e)
    BY <1>1 DEF SoundSeed, Siblings, Live
  <2>2. ~Cyclic(edges)
    BY <1>1 DEF SoundSeed
  <2> SUFFICES ASSUME NEW s \in ScopeIds PROVE SoundEdges(ScopeEdges(s))
    BY <1>2 DEF DependenciesAreSound
  <2> DEFINE E == ScopeEdges(s)
  <2>3. E \subseteq edges
    BY DEF ScopeEdges
  <2>4. ~Cyclic(E)
    <3> HIDE DEF E
    <3> QED
      BY <2>2, <2>3, FewerEdgesFewerCycles
  <2> HIDE DEF E
  <2>5. ASSUME NEW e \in E
        PROVE  /\ {e[1], e[2]} \subseteq Existing /\ Live(e[1]) /\ Live(e[2])
               /\ tasks[e[1]].parent = tasks[e[2]].parent
    BY <1>3, <2>1, <2>3 DEF Siblings, Existing, Exists, Live
  <2> QED
    BY <2>4, <2>5 DEF SoundEdges, E
<1>7. AppliedOnce
  BY <1>2 DEF AppliedOnce
<1>8. ASSUME NEW p \in Clients
      PROVE  /\ txn[p] = Idle /\ Request(p) = NoRequest /\ txn[p].stage = "idle"
             /\ txn[p].todo = <<>> /\ txn[p].held = {}
             /\ txn[p] = [stage |-> txn[p].stage, request |-> txn[p].request, tries |-> txn[p].tries,
                          todo |-> txn[p].todo, held |-> txn[p].held, kept |-> txn[p].kept]
  BY <1>2 DEF Idle, Request
<1>9. Keys
  <2>1. ASSUME NEW k \in 1..MaxRequests, NEW s \in ScopeIds PROVE effects[<<k, s>>] = 0
    BY <1>2
  <2> QED
    BY <1>8, <2>1 DEF Keys
<1>10. Compatible
  BY <1>8 DEF Compatible
<1>11. ASSUME NEW p \in Clients PROVE ClientInv(p)
  <2>1. txn[p].todo \in Seq(Locks) /\ txn[p].held \subseteq Locks
    BY <1>8, NoLock
  <2>2. TxnOK(p)
    BY <1>8, <2>1 DEF TxnOK
  <2>3. ~Under(p) /\ ~Closes(p)
    BY <1>8 DEF Under, Closes
  <2> QED
    BY <1>8, <2>2, <2>3 DEF ClientInv, Claimed, SpentOnce, Fresh, StillSound
<1>12. txn = [p \in Clients |-> txn[p]]
  BY <1>2
<1> QED
  BY <1>4, <1>5, <1>6, <1>7, <1>9, <1>10, <1>11, <1>12 DEF Inv

\* A step of somebody else.
LEMMA NothingHappens ==
  ASSUME Inv, UNCHANGED vars
  PROVE  Inv' /\ Newer
<1> USE DEF vars, rows
<1>1. Stored' /\ Rooted'
  BY DEF Inv, Stored, Rooted, Existing, Exists
<1>2. DependenciesAreSound'
  BY <1>1, SoundStays DEF Inv, Stored
<1>3. AppliedOnce' /\ Keys' /\ Compatible' /\ (txn = [p \in Clients |-> txn[p]])'
  BY DEF Inv, AppliedOnce, Keys, Compatible, Request
<1>4. ASSUME NEW q \in Clients PROVE ClientInv(q)'
  <2>1. /\ Stored' /\ TasksAdvance /\ ScopesAdvance /\ AsksAdvance
    BY <1>1, SameTasks DEF AsksAdvance
  <2>2. ClientInv(q)
    BY DEF Inv
  <2>3. TxnOK(q)' /\ SpentOnce(q)'
    BY <2>2 DEF ClientInv, TxnOK, Request, RequestOK, Born, SpentOnce, Spent, Passed, ScopePassed, Deleted
  <2>4. Under(q)' = Under(q) /\ Closes(q)' = Closes(q) /\ Guards(q)' = Guards(q) /\ Claims(q)' = Claims(q)
        /\ Request(q)' = Request(q)
    BY DEF Under, Closes, Guards, EdgeScope, Claims, Request
  <2>5. Claimed(q)'
    BY <2>2, <2>4 DEF ClientInv, Claimed
  <2>6. Fresh(q)'
    BY <2>2, <2>4 DEF ClientInv, Fresh, EffectScope, Reached, ScopeReached, Deleted
  <2>7. (Under(q) => Standing(q))'
    <3> PICK r, k : r = Request(q) /\ k = txn[q].kept
      OBVIOUS
    <3>1. /\ Exists(r.task)' = Exists(r.task) /\ Subtree(r.task)' = Subtree(r.task)
          /\ Versions(Subtree(r.task))' = Versions(Subtree(r.task))
      BY SameTree
    <3> QED
      BY <2>2, <2>4, <3>1 DEF ClientInv, Standing
  <2>8. StillSound(q)'
    <3>1. /\ Inserts(q)' = Inserts(q) /\ NewEdge(q)' = NewEdge(q) /\ EdgeScope(q)' = EdgeScope(q)
      BY <2>4 DEF Inserts, NewEdge, EdgeScope
    <3> PICK e, s, t, k : e = NewEdge(q) /\ s = EdgeScope(q) /\ t = Request(q).task /\ k = txn[q].kept
      OBVIOUS
    <3>2. /\ Born(e[1])' = Born(e[1]) /\ Born(e[2])' = Born(e[2])
          /\ Inscope(e[1], s)' = Inscope(e[1], s) /\ Inscope(e[2], s)' = Inscope(e[2], s)
          /\ Live(e[1])' = Live(e[1]) /\ Live(e[2])' = Live(e[2])
          /\ ScopeEdges(s)' = ScopeEdges(s) /\ Deleted(t)' = Deleted(t)
          /\ Inscope(t, k)' = Inscope(t, k) /\ Incident({t})' = Incident({t})
      BY DEF Born, Inscope, Live, Exists, ScopeEdges, Deleted, Incident
    <3> QED
      BY <2>2, <2>4, <3>1, <3>2 DEF ClientInv, StillSound
  <2> QED
    BY <2>3, <2>5, <2>6, <2>7, <2>8 DEF ClientInv
<1>5. Newer
  BY DEF Newer
<1> QED
  BY <1>1, <1>2, <1>3, <1>4, <1>5 DEF Inv

\* Every step keeps the invariant and leaves changed tasks with a version that is new.
LEMMA NextInv ==
  ASSUME Inv, [Next]_vars
  PROVE  Inv' /\ Newer
<1>1. CASE UNCHANGED vars
  BY <1>1, NothingHappens
<1>2. ASSUME NEW p \in Clients, Send(p) \/ Resend(p) \/ Lock(p) \/ Deadlock(p) \/ Prepare(p)
                  \/ Decide(p) \/ Refuse(p) \/ Rollback(p) \/ Expire(p) \/ Outdate(p)
      PROVE  Inv' /\ Newer
  <2>1. tasks' = tasks
    BY <1>2 DEF Send, Resend, Lock, Deadlock, Prepare, Decide, Refuse, Rollback, Expire, Outdate, Mark, rows
  <2>2. Inv'
    BY <1>2, SendStep, ResendStep, LockStep, QuietEnds, PrepareStep, DecideStep, MarkStep
  <2> QED
    BY <2>1, <2>2 DEF Newer
<1>3. ASSUME NEW p \in Clients, ChangeDependencies(p) \/ Follow(p)
      PROVE  Inv' /\ Newer
  <2>1. tasks' = tasks
    BY <1>3 DEF ChangeDependencies, ChangeDependency, AskForDependency, AcceptRequest, RejectRequest, Follow
  <2>2. Inv'
    BY <1>3, ChangeDependencyStep, AskStep, AcceptStep, RejectStep, FollowStep DEF ChangeDependencies
  <2> QED
    BY <2>1, <2>2 DEF Newer
<1>4. ASSUME NEW p \in Clients,
             EditTasks(p) \/ AddBlocker(p) \/ ResolveBlocker(p) \/ ChangeLifecycle(p) \/ ChangeTree(p)
      PROVE  Inv' /\ Newer
  BY <1>4, CreateStep, EditStep, CompleteStep, ReopenStep, ChangeOwnerStep,
     MoveStep, ArchiveStep, DeleteStep DEF EditTasks, ChangeLifecycle, ChangeTree
<1>5. CASE Next
  <2> PICK p \in Clients : Send(p) \/ Resend(p) \/ Step(p)
    BY <1>5 DEF Next
  <2> QED
    BY <1>2, <1>3, <1>4 DEF Step, FollowAndBlock
<1> QED
  BY <1>1, <1>5

-----------------------------------------------------------------------------
(* Completion.  When nobody creates or reopens a task, what completeTask    *)
(* found before it wrote stays true until it writes, and afterwards: the    *)
(* scope locks of a completion exclude the moves and links into its task,   *)
(* and the lock on the task itself excludes its edits and moves.            *)

OpensTask == Edits \cup {"complete"}

Chosen(p) == Request(p) # NoRequest => Request(p).op \in Operations

\* Who opens with the row of its task has it from then on.
TaskHeld(p) ==
  /\ txn[p].stage = "opening" /\ Request(p).op \in OpensTask =>
       X(Task(Request(p).task)) \in Claims(p)
  /\ Under(p) /\ Request(p).op \in OpensTask => X(Task(Request(p).task)) \in txn[p].held

\* A completion has the scope of its task and that of the task's children.
ScopesHeld(p) ==
  LET t == Request(p).task
      S == {X(Scope(t)), X(Scope(tasks[t].parent))} IN
  Under(p) /\ Request(p).op = "complete" /\ Live(t) =>
    S \subseteq Claims(p) /\ (Closes(p) => S \subseteq txn[p].held)

Undone(t) == Live(t) => ~Done(t)

Completable(t) ==
  Live(t) => (\A c \in Children(t) : Live(c) => Done(c)) /\ Waiting(t) = {}

\* What a transaction found before it writes is so until it does.
Settled(p) ==
  Closes(p) =>
    LET r == Request(p) IN
    /\ r.op = "start" => Undone(r.task)
    /\ r.op = "complete" => Completable(r.task)
    /\ r.op = "move" /\ r.other # Root => Undone(r.other)
    /\ Inserts(p) => LET t == NewEdge(p)[2] IN Inscope(t, EdgeScope(p)) => Undone(t)

CompletionInv(p) == Chosen(p) /\ TaskHeld(p) /\ ScopesHeld(p) /\ Settled(p)

\* What a step of q does to the tasks that are live afterwards: none of them
\* is new, or was done and is not any more; who moved one has it and its new
\* scope, who completed one has it, its scope and its children's, and who
\* added a dependency has the scope of the tasks it connects.
Respects(q) ==
  /\ \A u \in Tasks : Live(u)' => Live(u) /\ (Done(u) => Done(u)')
  /\ \A u \in Tasks : Live(u)' /\ tasks'[u].parent # tasks[u].parent =>
       /\ Holds(q, Task(u)) /\ Holds(q, Scope(tasks'[u].parent))
       /\ \A o \in Tasks : o = tasks'[u].parent => Undone(o)'
  /\ \A u \in Tasks : Live(u)' /\ Done(u)' /\ ~Done(u) =>
       /\ Holds(q, Task(u)) /\ Holds(q, Scope(u)) /\ Holds(q, Scope(tasks[u].parent))
       /\ Completable(u)
  /\ \A e \in edges' : e \notin edges =>
       Holds(q, Scope(tasks'[e[2]].parent)) /\ Undone(e[2])'

\* A step after which every live task was so before, where it is and as done as it is.
LEMMA TameStep ==
  ASSUME edges' \subseteq edges, NEW q,
         \A u \in Tasks : Live(u)' => /\ Live(u) /\ tasks'[u].parent = tasks[u].parent
                                      /\ Done(u)' = Done(u)
  PROVE  Respects(q)
BY DEF Respects

\* Such steps keep completion true,
LEMMA CompletionKept ==
  ASSUME Inv, Stored', CompletionHolds, NEW q, Respects(q)
  PROVE  CompletionHolds'
<1> SUFFICES ASSUME NEW t \in Tasks, Live(t)', Done(t)'
             PROVE  (\A c \in Children(t)' : Live(c)' => Done(c)') /\ Waiting(t)' = {}
  BY DEF CompletionHolds
<1>1. Live(t) /\ t # Root
  BY FiniteTasks DEF Respects
<1>2. (\A c \in Children(t) : Live(c) => Done(c)) /\ Waiting(t) = {}
  BY <1>1 DEF CompletionHolds, Respects, Completable
<1>3. ASSUME NEW c \in Children(t)', Live(c)' PROVE Done(c)'
  <2>1. c \in Tasks /\ tasks'[c].parent = t
    BY <1>3 DEF Children, Existing
  <2>2. Live(c) /\ tasks[c].parent = t
    BY <1>1, <1>3, <2>1 DEF Respects, Undone
  <2>3. c \in Children(t)
    BY <2>1, <2>2 DEF Children, Existing, Exists, Live
  <2> QED
    BY <1>2, <1>3, <2>1, <2>2, <2>3 DEF Respects
<1>4. ASSUME NEW x \in Waiting(t)' PROVE FALSE
  <2>1. PICK e \in edges' : e[2] = t /\ x = e[1] /\ Live(x)' /\ ~Done(x)'
    BY DEF Waiting, Predecessors
  <2>2. x \in Tasks /\ e \in edges
    BY <2>1 DEF Stored, Respects, Undone
  <2>3. Live(x) /\ ~Done(x)
    BY <2>1, <2>2 DEF Respects
  <2> QED
    BY <1>2, <2>1, <2>2, <2>3 DEF Waiting, Predecessors
<1> QED
  BY <1>3, <1>4

\* and take nothing away from the other clients.
LEMMA OthersSettled ==
  ASSUME Inv, Stored', AsksAdvance, NEW q \in Clients, Respects(q),
         NEW p \in Clients, p # q, txn'[p] = txn[p], CompletionInv(p)
  PROVE  CompletionInv(p)'
<1> PICK r, held : /\ r = Request(p) /\ r = Request(p)'
                   /\ held = txn[p].held /\ held = txn'[p].held
  BY DEF Request
<1>1. /\ Under(p)' = Under(p) /\ Closes(p)' = Closes(p) /\ Claims(p)' = Claims(p)
      /\ txn'[p].stage = txn[p].stage
  BY DEF Under, Closes, Claims
<1>2. ASSUME Under(p) PROVE r # NoRequest /\ RequestOK(r) /\ Standing(p)
  BY <1>2 DEF Inv, ClientInv, TxnOK, Under
<1>3. \A l : X(l) \in held => ~Holds(q, l)
  BY Excludes DEF Inv
<1>4. Chosen(p)' /\ TaskHeld(p)'
  BY <1>1 DEF CompletionInv, Chosen, TaskHeld
<1>5. ASSUME Under(p), r.op = "complete", Live(r.task)'
      PROVE  /\ r.task \in Tasks /\ Live(r.task) /\ tasks'[r.task].parent = tasks[r.task].parent
             /\ ~Holds(q, Task(r.task))
  <2>1. r.task \in Tasks
    BY <1>2, <1>5 DEF RequestOK, ScopeIds
  <2>2. X(Task(r.task)) \in held
    BY <1>5 DEF CompletionInv, TaskHeld, OpensTask
  <2> QED
    BY <1>3, <1>5, <2>1, <2>2 DEF Respects
<1>6. ScopesHeld(p)'
  BY <1>1, <1>5 DEF CompletionInv, ScopesHeld
<1>7. ASSUME Closes(p), r.op = "start" PROVE Undone(r.task)'
  <2>1. Under(p) /\ r.task \in Tasks
    BY <1>2, <1>7 DEF RequestOK, ScopeIds, Closes, Under
  <2>2. X(Task(r.task)) \in held
    BY <1>7, <2>1 DEF CompletionInv, TaskHeld, OpensTask, Edits
  <2>3. Undone(r.task)
    BY <1>7 DEF CompletionInv, Settled
  <2> QED
    BY <1>3, <2>1, <2>2, <2>3 DEF Respects, Undone
<1>8. ASSUME Closes(p), r.op = "complete" PROVE Completable(r.task)'
  <2> PICK t : t = r.task
    OBVIOUS
  <2> SUFFICES ASSUME Live(t)'
               PROVE  (\A c \in Children(t)' : Live(c)' => Done(c)') /\ Waiting(t)' = {}
    BY DEF Completable
  <2>1. Under(p)
    BY <1>8 DEF Closes, Under
  <2>2. t \in Tasks /\ t # Root /\ Live(t) /\ tasks'[t].parent = tasks[t].parent
    BY <1>5, <1>8, <2>1, FiniteTasks
  <2>3. {X(Scope(t)), X(Scope(tasks[t].parent))} \subseteq held
    BY <1>8, <2>1, <2>2 DEF CompletionInv, ScopesHeld
  <2>4. ~Holds(q, Scope(t)) /\ ~Holds(q, Scope(tasks[t].parent))
    BY <1>3, <2>3
  <2>5. (\A c \in Children(t) : Live(c) => Done(c)) /\ Waiting(t) = {}
    BY <1>8, <2>2 DEF CompletionInv, Settled, Completable
  <2>6. ASSUME NEW c \in Children(t)', Live(c)' PROVE Done(c)'
    <3>1. c \in Tasks /\ tasks'[c].parent = t
      BY <2>6 DEF Children, Existing
    <3>2. Live(c) /\ tasks[c].parent = t
      BY <2>4, <2>6, <3>1 DEF Respects
    <3>3. c \in Children(t)
      BY <3>1, <3>2 DEF Children, Existing, Exists, Live
    <3> QED
      BY <2>5, <2>6, <3>1, <3>2, <3>3 DEF Respects
  <2>7. ASSUME NEW x \in Waiting(t)' PROVE FALSE
    <3>1. PICK e \in edges' : e[2] = t /\ x = e[1] /\ Live(x)' /\ ~Done(x)'
      BY DEF Waiting, Predecessors
    <3>2. x \in Tasks /\ e \in edges
      BY <2>2, <2>4, <3>1 DEF Stored, Respects
    <3>3. Live(x) /\ ~Done(x)
      BY <3>1, <3>2 DEF Respects
    <3> QED
      BY <2>5, <3>1, <3>2, <3>3 DEF Waiting, Predecessors
  <2> QED
    BY <2>6, <2>7
<1>9. ASSUME Closes(p) PROVE Under(p) /\ Guards(p) \subseteq held
  BY <1>9 DEF Inv, ClientInv, Claimed, Closes, Under
<1>10. ASSUME Closes(p), r.op = "move", r.other # Root PROVE Undone(r.other)'
  <2>1. r.other \in Tasks
    BY <1>2, <1>9, <1>10 DEF RequestOK, ScopeIds
  <2>2. X(Scope(r.other)) \in held
    BY <1>9, <1>10 DEF Guards, Links, Answers
  <2>3. Undone(r.other)
    BY <1>10 DEF CompletionInv, Settled
  <2> QED
    BY <1>3, <2>1, <2>2, <2>3 DEF Respects, Undone
<1>11. ASSUME Closes(p), Inserts(p)'
       PROVE  (LET t == NewEdge(p)[2] IN Inscope(t, EdgeScope(p)) => Undone(t))'
  <2>1. r.op \in Answers => /\ r.other \in DOMAIN asks /\ asks'[r.other].op = asks[r.other].op
                            /\ asks'[r.other].scope = asks[r.other].scope
                            /\ asks'[r.other].pred = asks[r.other].pred
                            /\ asks'[r.other].succ = asks[r.other].succ
    BY <1>2, <1>9, <1>11 DEF RequestOK, AsksAdvance
  <2>2. Inserts(p) /\ r.op \in Links \cup Answers
    BY <1>11, <2>1 DEF Inserts, Answers, Links
  <2>3. NewEdge(p)' = NewEdge(p) /\ EdgeScope(p)' = EdgeScope(p)
    BY <2>1, <2>2 DEF NewEdge, EdgeScope, Inserts, Request, Answers
  <2> PICK t, s : t = NewEdge(p)[2] /\ s = EdgeScope(p)
    OBVIOUS
  <2>4. t \in Tasks
    BY <1>2, <1>9, <1>11, <2>1, <2>2, StoredFacts
       DEF Inv, RequestOK, NewEdge, Inserts, Links, Answers
  <2>5. X(Scope(s)) \in held
    BY <1>9, <1>11, <2>2 DEF Guards, Links, Answers
  <2>6. Inscope(t, s) => Undone(t)
    BY <1>11, <2>2 DEF CompletionInv, Settled
  <2>7. ASSUME Inscope(t, s)', Live(t)' PROVE ~Done(t)'
    <3>1. tasks'[t].parent = s /\ ~Holds(q, Scope(s))
      BY <1>3, <2>5, <2>7 DEF Inscope
    <3>2. Live(t) /\ tasks[t].parent = s
      BY <2>4, <2>7, <3>1 DEF Respects
    <3>3. ~Done(t)
      BY <2>6, <3>2 DEF Inscope, Exists, Live, Undone
    <3> QED
      BY <2>4, <2>7, <3>1, <3>2, <3>3 DEF Respects
  <2> QED
    BY <2>3, <2>7 DEF Undone
<1>12. Settled(p)'
  <2> SUFFICES ASSUME Closes(p)' PROVE Settled(p)'
    BY DEF Settled, Closes
  <2>1. Closes(p)
    BY <1>1
  <2> QED
    BY <1>7, <1>8, <1>10, <1>11, <2>1
       DEF Settled, Undone, Completable, Inscope, Exists, Live, Done, Children, Existing, Waiting, Predecessors
<1> QED
  BY <1>4, <1>6, <1>12 DEF CompletionInv

\* A transaction that ends leaves nothing to keep.
LEMMA EndedSettled ==
  ASSUME Inv, NEW p \in Clients, txn' = [txn EXCEPT ![p] = Ended(p)], CompletionInv(p)
  PROVE  CompletionInv(p)'
<1>1. txn'[p].stage = "idle" /\ Request(p)' \in {NoRequest, Request(p)}
  BY EndedShape
<1>2. Chosen(p)'
  BY <1>1 DEF CompletionInv, Chosen
<1>3. ~Under(p)' /\ ~Closes(p)'
  BY <1>1 DEF Under, Closes
<1> QED
  BY <1>1, <1>2, <1>3 DEF CompletionInv, TaskHeld, ScopesHeld, Settled

\* What an edit and a completion lock before they read, and a completion afterwards.
LEMMA CompletionLocks ==
  ASSUME Stored, NEW r, r.op \in OpensTask, r.task \in Tasks
  PROVE  /\ X(Task(r.task)) \in Range(Opening(r))
         /\ r.op = "complete" =>
              {X(Scope(r.task)), X(Scope(tasks[r.task].parent))} \subseteq Range(Working(r))
<1> USE DEF OpensTask, Edits, Blocks
<1>1. r.task \in Nat /\ tasks[r.task].parent \in Nat /\ tasks[r.task].parent \in ScopeIds
  BY StoredFacts, FiniteTasks DEF ScopeIds
<1>2. X(Task(r.task)) \in Range(Opening(r))
  <2>1. Opening(r) = <<X(Task(r.task))>>
    BY DEF Opening, OpensProject, Destructions
  <2>2. X(Task(r.task)) \in Locks
    BY <1>1, LockTypes
  <2> QED
    BY <2>1, <2>2, OneLock
<1>3. ASSUME r.op = "complete"
      PROVE  {X(Scope(r.task)), X(Scope(tasks[r.task].parent))} \subseteq Range(Working(r))
  <2> PICK S : S = {tasks[r.task].parent, r.task}
    OBVIOUS
  <2>1. Working(r) = Scopes(S)
    BY <1>3 DEF Working, CompleteLocks, Links, Answers, Follows, Destructions
  <2>2. S \in SUBSET Nat /\ IsFiniteSet(S)
    <3>1. S \in SUBSET (Tasks \cup {Root})
      BY <1>1 DEF ScopeIds
    <3> QED
      BY <3>1, FiniteTasks
  <2>3. Range(Scopes(S)) = {X(Scope(s)) : s \in S}
    BY <2>2, ScopesList
  <2> QED
    BY <2>1, <2>3
<1> QED
  BY <1>2, <1>3

\* A transaction that opens takes the lock it needs first.
LEMMA OpenedSettled ==
  ASSUME Stored, Inv', NEW p \in Clients, NEW r, NEW n, txn'[p] = Opened(r, n),
         r.op \in Operations, r # NoRequest
  PROVE  CompletionInv(p)'
<1>1. txn'[p] = [stage |-> "opening", request |-> r, tries |-> n,
                 todo |-> Opening(r), held |-> {}, kept |-> <<>>]
  BY DEF Opened
<1>2. /\ txn'[p].stage = "opening" /\ Request(p)' = r /\ txn'[p].todo = Opening(r)
      /\ ~Under(p)' /\ ~Closes(p)'
  BY <1>1 DEF Request, Under, Closes
<1>3. RequestOK(r)'
  <2>1. TxnOK(p)'
    BY DEF Inv, ClientInv
  <2>2. RequestOK(Request(p))'
    BY <1>2, <2>1 DEF TxnOK
  <2> QED
    BY <1>2, <2>2 DEF RequestOK, Born
<1>4. ASSUME r.op \in OpensTask PROVE X(Task(r.task)) \in Claims(p)'
  <2>1. r.task \in Tasks
    BY <1>3, <1>4 DEF RequestOK, OpensTask, Edits, Blocks, ScopeIds
  <2>2. X(Task(r.task)) \in Range(Opening(r))
    BY <1>4, <2>1, CompletionLocks
  <2> QED
    BY <1>2, <2>2 DEF Claims
<1> QED
  BY <1>2, <1>4 DEF CompletionInv, Chosen, TaskHeld, ScopesHeld, Settled

\* Sending and sending again,
LEMMA SentSettled ==
  ASSUME Inv, Inv', NEW p \in Clients, Send(p) \/ Resend(p), CompletionInv(p)
  PROVE  CompletionInv(p)'
<1>1. CASE Send(p)
  <2>1. PICK actor \in Members,
             q \in {x \in CreateRequests \cup UpdateRequests \cup StatusRequests \cup BlockRequests
                     \cup LinkRequests \cup AnswerRequests \cup FollowRequests \cup MoveRequests
                     \cup OwnRequests \cup CompleteRequests \cup ReopenRequests
                     \cup DestructionRequests : x.op \in Operations} :
             txn' = [txn EXCEPT ![p] =
               Opened([key |-> prepared', op |-> q.op, actor |-> actor, task |-> q.task,
                       other |-> q.other, shown |-> q.shown], 1)]
    BY <1>1 DEF Send, Asks
  <2> PICK r : r = [key |-> prepared', op |-> q.op, actor |-> actor, task |-> q.task,
                    other |-> q.other, shown |-> q.shown]
    OBVIOUS
  <2>2. txn'[p] = Opened(r, 1)
    BY <2>1 DEF Inv
  <2>3. r.op \in Operations /\ r.key = prepared + 1
    BY <1>1, <2>1 DEF Send
  <2>4. r # NoRequest
    BY <2>3 DEF NoRequest, Inv, Stored
  <2> QED
    BY <2>2, <2>3, <2>4, OpenedSettled DEF Inv
<1>2. CASE Resend(p)
  <2> PICK r, n : r = Request(p) /\ n = txn[p].tries + 1
    OBVIOUS
  <2>1. txn'[p] = Opened(r, n) /\ r # NoRequest
    BY <1>2 DEF Resend, Inv
  <2>2. r.op \in Operations
    BY <2>1 DEF CompletionInv, Chosen
  <2> QED
    BY <2>1, <2>2, OpenedSettled DEF Inv
<1> QED
  BY <1>1, <1>2

\* taking a lock,
LEMMA LockedSettled ==
  ASSUME Inv, NEW p \in Clients, Lock(p), CompletionInv(p)
  PROVE  CompletionInv(p)'
<1> DEFINE h == Head(txn[p].todo)
<1>1. TxnOK(p)
  BY DEF Inv, ClientInv
<1>2. txn[p].todo \in Seq(Locks) /\ txn[p].todo # <<>>
  BY <1>1 DEF TxnOK, Lock
<1>3. Range(txn[p].todo) = {h} \cup Range(Tail(txn[p].todo))
  BY <1>2, FirstAndRest
<1> HIDE DEF h
<1>4. txn'[p] = [txn[p] EXCEPT !.todo = Tail(@), !.held = @ \cup {h}]
  BY DEF Lock, Inv, h
<1>5. /\ txn'[p].stage = txn[p].stage /\ Request(p)' = Request(p)
      /\ txn'[p].kept = txn[p].kept /\ txn'[p].todo = Tail(txn[p].todo)
      /\ txn'[p].held = txn[p].held \cup {h}
  BY <1>1, <1>4 DEF TxnOK, Request
<1>6. UNCHANGED rows
  BY DEF Lock
<1>7. /\ Claims(p)' = Claims(p) /\ txn[p].held \subseteq txn'[p].held
      /\ Under(p)' = Under(p) /\ Closes(p)' = Closes(p)
  BY <1>3, <1>5 DEF Claims, Under, Closes
<1>8. Chosen(p)' /\ TaskHeld(p)'
  BY <1>5, <1>7 DEF CompletionInv, Chosen, TaskHeld
<1>9. ScopesHeld(p)'
  BY <1>5, <1>6, <1>7 DEF CompletionInv, ScopesHeld, Live, rows
<1>10. /\ Inserts(p)' = Inserts(p) /\ NewEdge(p)' = NewEdge(p) /\ EdgeScope(p)' = EdgeScope(p)
  BY <1>5, <1>6 DEF Inserts, NewEdge, EdgeScope, rows
<1>11. \A t : Undone(t)' = Undone(t) /\ Completable(t)' = Completable(t)
  BY <1>6 DEF Undone, Completable, Live, Done, Children, Existing, Exists, Waiting, Predecessors, rows
<1>12. Settled(p)'
  <2> PICK t, s : t = NewEdge(p)[2] /\ s = EdgeScope(p)
    OBVIOUS
  <2>1. Inscope(t, s)' = Inscope(t, s)
    BY <1>6 DEF Inscope, Exists, rows
  <2> QED
    BY <1>5, <1>7, <1>10, <1>11, <2>1 DEF CompletionInv, Settled
<1> QED
  BY <1>8, <1>9, <1>12 DEF CompletionInv

\* preparing
LEMMA PreparedSettled ==
  ASSUME Inv, NEW p \in Clients, Prepare(p), CompletionInv(p)
  PROVE  CompletionInv(p)'
<1> PICK r : r = Request(p)
  OBVIOUS
<1>1. UNCHANGED rows /\ txn[p].stage = "opening" /\ txn[p].todo = <<>>
  BY DEF Prepare, At
<1>2. CASE ~(Prepared(r) /\ ~(r.op \in Recording /\ r.key \in recorded))
  <2>1. txn' = [txn EXCEPT ![p] = Ended(p)]
    BY <1>2 DEF Prepare
  <2> QED
    BY <2>1, EndedSettled
<1>3. CASE Prepared(r) /\ ~(r.op \in Recording /\ r.key \in recorded)
  <2>1. txn'[p] = [txn[p] EXCEPT !.stage = "working", !.todo = Working(r), !.kept = Kept(r)]
    BY <1>3 DEF Prepare, Inv
  <2>2. TxnOK(p) /\ r # NoRequest /\ RequestOK(r)
    BY <1>1 DEF Inv, ClientInv, TxnOK
  <2>3. /\ txn'[p].stage = "working" /\ Request(p)' = r /\ txn'[p].todo = Working(r)
        /\ txn'[p].held = txn[p].held
    BY <2>1, <2>2 DEF TxnOK, Request
  <2>4. Under(p)' /\ ~Closes(p)'
    BY <2>3 DEF Under, Closes
  <2>5. r.op \in OpensTask => X(Task(r.task)) \in txn[p].held /\ r.task \in Tasks
    BY <1>1, <2>2, NoLock
       DEF CompletionInv, TaskHeld, Claims, RequestOK, ScopeIds, OpensTask, Edits, Blocks
  <2>6. Chosen(p)' /\ TaskHeld(p)'
    BY <2>3, <2>5 DEF CompletionInv, Chosen, TaskHeld
  <2>7. ScopesHeld(p)'
    <3> SUFFICES ASSUME r.op = "complete"
                 PROVE  {X(Scope(r.task)), X(Scope(tasks'[r.task].parent))} \subseteq Claims(p)'
      BY <2>3, <2>4 DEF ScopesHeld
    <3>1. r.op \in OpensTask /\ r.task \in Tasks
      BY <2>5 DEF OpensTask
    <3>2. {X(Scope(r.task)), X(Scope(tasks[r.task].parent))} \subseteq Range(Working(r))
      BY <3>1, CompletionLocks DEF Inv
    <3> QED
      BY <1>1, <2>3, <3>2 DEF Claims, rows
  <2> QED
    BY <2>4, <2>6, <2>7 DEF CompletionInv, Settled
<1> QED
  BY <1>2, <1>3

\* and deciding leave a client with what its request needs.
LEMMA DecidedSettled ==
  ASSUME Inv, NEW p \in Clients, Decide(p), CompletionInv(p)
  PROVE  CompletionInv(p)'
<1> PICK r, kept : r = Request(p) /\ kept = txn[p].kept
  OBVIOUS
<1>1. UNCHANGED rows /\ txn[p].stage = "working" /\ txn[p].todo = <<>> /\ Allowed(r, kept)
  BY DEF Decide, At
<1>2. TxnOK(p) /\ r # NoRequest /\ RequestOK(r)
  BY <1>1 DEF Inv, ClientInv, TxnOK, Under
<1>3. txn'[p] = [txn[p] EXCEPT !.stage = "closing", !.todo = Closing(r), !.kept = Decided(r, kept)]
  BY DEF Decide, Inv
<1>4. /\ txn'[p].stage = "closing" /\ Request(p)' = r /\ txn'[p].todo = Closing(r)
      /\ txn'[p].kept = Decided(r, kept) /\ txn'[p].held = txn[p].held
  BY <1>2, <1>3 DEF TxnOK, Request
<1>5. Under(p)' /\ Closes(p)' /\ Under(p)
  BY <1>1, <1>4 DEF Under, Closes
<1>6. Chosen(p)' /\ TaskHeld(p)'
  BY <1>4, <1>5 DEF CompletionInv, Chosen, TaskHeld
<1>7. ScopesHeld(p)'
  <2> PICK t : t = r.task
    OBVIOUS
  <2>1. r.op = "complete" /\ Live(t) =>
          {X(Scope(t)), X(Scope(tasks[t].parent))} \subseteq txn[p].held
    BY <1>1, <1>5, NoLock DEF CompletionInv, ScopesHeld, Claims
  <2>2. Live(t)' = Live(t)
    BY <1>1 DEF Live, rows
  <2> QED
    BY <1>1, <1>4, <2>1, <2>2 DEF ScopesHeld, Claims, rows
<1>8. /\ r.op \in Edits => EditAllowed(r)
      /\ r.op \in Links => LinkAllowed(r, kept)
      /\ r.op = "accept" => AcceptAllowed(r)
      /\ r.op = "move" => MoveAllowed(r, kept)
  BY <1>1, AllowedCases
<1>9. r.op = "complete" => CompleteAllowed(r)
  BY <1>1 DEF Allowed, Edits, Blocks, Links, Follows
<1>10. \A t : Undone(t)' = Undone(t) /\ Completable(t)' = Completable(t)
  BY <1>1 DEF Undone, Completable, Live, Done, Children, Existing, Exists, Waiting, Predecessors, rows
<1>11. /\ r.op = "start" => Undone(r.task)
       /\ r.op = "complete" => Completable(r.task)
       /\ r.op = "move" /\ r.other # Root => Undone(r.other)
  BY <1>8, <1>9 DEF Edits, EditAllowed, CompleteAllowed, MoveAllowed, Undone, Completable
<1>12. Inserts(p)' => Undone(NewEdge(p)[2]) /\ NewEdge(p)' = NewEdge(p)
  <2>1. Inserts(p)' = Inserts(p) /\ (Inserts(p) => NewEdge(p)' = NewEdge(p))
    BY <1>1, <1>4 DEF Inserts, NewEdge, rows
  <2>2. r.op = "link" => Undone(r.other)
    BY <1>8 DEF Links, LinkAllowed, EdgeChangeable, Undone
  <2>3. r.op = "accept" => Undone(asks[r.other].succ)
    BY <1>8 DEF AcceptAllowed, Current, EdgeChangeable, Undone
  <2> QED
    BY <2>1, <2>2, <2>3 DEF Inserts, NewEdge
<1>13. Settled(p)'
  BY <1>4, <1>10, <1>11, <1>12 DEF Settled
<1> QED
  BY <1>6, <1>7, <1>13 DEF CompletionInv

\* A request for a change of dependencies keeps what it is about.
LEMMA AsksStay ==
  ASSUME Inv, NEW p \in Clients, Send(p) \/ Resend(p) \/ Step(p)
  PROVE  AsksAdvance
<1>1. CASE UNCHANGED asks
  BY <1>1 DEF AsksAdvance
<1>2. CASE Expire(p) \/ Outdate(p) \/ AskForDependency(p) \/ AcceptRequest(p) \/ RejectRequest(p) \/ Delete(p)
  BY <1>2, MarkStep, AskStep, AcceptStep, RejectStep, DeleteStep
<1> QED
  BY <1>1, <1>2 DEF Send, Resend, Step, Lock, Deadlock, Prepare, Decide, Refuse, Rollback, rows,
     EditTasks, Create, Update, ChangeStatus, Edit, ChangeDependencies, ChangeDependency,
     FollowAndBlock, Follow, AddBlocker, ResolveBlocker, ChangeLifecycle, Complete, Reopen,
     ChangeOwner, ChangeTree, Move, Archive

\* A step that writes no task and adds no dependency.
LEMMA QuietRespects ==
  ASSUME UNCHANGED tasks, edges' \subseteq edges, NEW p
  PROVE  Respects(p)
<1>1. \A u \in Tasks : Live(u)' = Live(u) /\ Done(u)' = Done(u)
  BY DEF Live, Done
<1> QED
  BY <1>1, TameStep

\* An edit leaves a task where it is, and starts only what is not done.
LEMMA EditRespects ==
  ASSUME Inv, NEW p \in Clients, CompletionInv(p),
         Update(p) \/ ChangeStatus(p) \/ AddBlocker(p) \/ ResolveBlocker(p)
  PROVE  Respects(p)
<1> PICK t : t = Request(p).task
  OBVIOUS
<1>1. Edit(p, Request(p).op) /\ Request(p).op \in Edits /\ UNCHANGED edges
  BY DEF Update, ChangeStatus, AddBlocker, ResolveBlocker, Edit, Writes, Edits, Blocks
<1>2. At(p, "closing")
  BY <1>1 DEF Edit, Writes
<1>3. t \in Tasks
  BY <1>1, <1>2, Writer DEF RequestOK, ScopeIds, Edits, Blocks
<1>4. tasks \in [Tasks -> Row] /\ tasks = [u \in Tasks |-> tasks[u]]
  BY DEF Inv, Stored
<1> PICK a : a = tasks[t]
  OBVIOUS
<1>5. a = [life |-> a.life, parent |-> a.parent, status |-> a.status,
           owner |-> a.owner, version |-> a.version]
  BY <1>3, RowRead DEF Inv
<1> DEFINE up == [a EXCEPT !.version = a.version + 1]
<1>6. NextRow(p) = [tasks EXCEPT ![t] = up]
  BY DEF NextRow
<1>7. up.life = a.life /\ up.parent = a.parent /\ up.status = a.status
      /\ up = [life |-> a.life, parent |-> a.parent, status |-> a.status,
               owner |-> a.owner, version |-> a.version + 1]
  BY <1>5
<1> HIDE DEF up
<1>8. CASE tasks' = NextRow(p)
  <2>1. \A u \in Tasks : /\ tasks'[u].life = tasks[u].life /\ tasks'[u].parent = tasks[u].parent
                         /\ tasks'[u].status = tasks[u].status
    BY <1>3, <1>4, <1>6, <1>7, <1>8
  <2> QED
    BY <1>1, <2>1, TameStep DEF Live, Done
<1>9. CASE ChangeStatus(p)
  <2> PICK f, g, doing : f = NextRow(p) /\ g = tasks' /\ doing = "in_progress"
    OBVIOUS
  <2>1. f = [u \in Tasks |-> f[u]] /\ f[t] = up /\ \A u \in Tasks : u # t => f[u] = tasks[u]
    BY <1>3, <1>4, <1>6
  <2>2. g = [f EXCEPT ![t].status = doing]
    BY <1>9 DEF ChangeStatus
  <2>3. g[t] = [up EXCEPT !.status = doing] /\ \A u \in Tasks : u # t => g[u] = tasks[u]
    BY <1>3, <2>1, <2>2
  <2>4. g[t].life = a.life /\ g[t].parent = a.parent /\ g[t].status = doing
    BY <1>7, <2>3
  <2>5. Undone(t)
    <3>1. Closes(p) /\ Request(p).op = "start"
      BY <1>2, <1>9, Writer DEF ChangeStatus, Edit, Writes
    <3> QED
      BY <3>1 DEF CompletionInv, Settled
  <2>6. ASSUME NEW u \in Tasks, Live(u)'
        PROVE  Live(u) /\ tasks'[u].parent = tasks[u].parent /\ Done(u)' = Done(u)
    <3>1. CASE u = t
      <4>1. Live(t) /\ ~Done(t)
        BY <2>4, <2>5, <2>6, <3>1 DEF Live, Undone
      <4>2. ~Done(t)'
        BY <2>4 DEF Done
      <4> QED
        BY <2>4, <3>1, <4>1, <4>2 DEF Live, Done
    <3>2. CASE u # t
      BY <2>3, <2>6, <3>2 DEF Live, Done
    <3> QED
      BY <3>1, <3>2
  <2> QED
    BY <1>1, <2>6, TameStep
<1> QED
  BY <1>8, <1>9 DEF Update, AddBlocker, ResolveBlocker

\* A change of owner, an archive and a delete leave live tasks where they are.
LEMMA RowsRespect ==
  ASSUME Inv, NEW p \in Clients, ChangeOwner(p) \/ Archive(p) \/ Delete(p)
  PROVE  Respects(p)
<1>1. tasks \in [Tasks -> Row]
  BY DEF Inv, Stored
<1>2. CASE ChangeOwner(p)
  <2> PICK r, S : r = Request(p) /\ S = Inheritors(r.task)
    OBVIOUS
  <2>1. UNCHANGED edges
        /\ tasks' = [t \in Tasks |-> IF t \in S
             THEN [tasks[t] EXCEPT !.owner = IF t = r.task THEN r.other ELSE @, !.version = @ + 1]
             ELSE tasks[t]]
    BY <1>2 DEF ChangeOwner
  <2>2. ASSUME NEW u \in Tasks
        PROVE  /\ tasks'[u].life = tasks[u].life /\ tasks'[u].parent = tasks[u].parent
               /\ tasks'[u].status = tasks[u].status
    <3> PICK a, o, n : a = tasks[u] /\ o = (IF u = r.task THEN r.other ELSE a.owner) /\ n = a.version + 1
      OBVIOUS
    <3>1. a = [life |-> a.life, parent |-> a.parent, status |-> a.status,
               owner |-> a.owner, version |-> a.version]
      BY RowRead DEF Inv
    <3>2. u \in S => tasks'[u] = [a EXCEPT !.owner = o, !.version = n]
      BY <2>1
    <3>3. u \in S => tasks'[u] = [life |-> a.life, parent |-> a.parent, status |-> a.status,
                                  owner |-> o, version |-> n]
      BY <3>1, <3>2
    <3>4. u \notin S => tasks'[u] = a
      BY <2>1
    <3> QED
      BY <3>3, <3>4
  <2> QED
    BY <2>1, <2>2, TameStep DEF Live, Done
<1>3. CASE Archive(p)
  <2> PICK kept, S, off : kept = txn[p].kept /\ S = DOMAIN kept /\ off = Incident(S)
    OBVIOUS
  <2>1. tasks' = [u \in Tasks |-> IF u \in S
             THEN [tasks[u] EXCEPT !.life = "archived", !.version = kept[u] + 1] ELSE tasks[u]]
        /\ edges' = edges \ off
    BY <1>3 DEF Archive
  <2>2. ASSUME NEW u \in Tasks
        PROVE  u \in S => tasks'[u].life = "archived"
    <3> PICK a, life, n : a = tasks[u] /\ life = "archived" /\ n = kept[u] + 1
      OBVIOUS
    <3>1. a = [life |-> a.life, parent |-> a.parent, status |-> a.status,
               owner |-> a.owner, version |-> a.version]
      BY RowRead DEF Inv
    <3>2. u \in S => tasks'[u] = [a EXCEPT !.life = life, !.version = n]
      BY <2>1
    <3> QED
      BY <3>1, <3>2
  <2>3. \A u \in Tasks : u \notin S => tasks'[u] = tasks[u]
    BY <2>1
  <2> QED
    BY <2>1, <2>2, <2>3, TameStep DEF Live, Done
<1>4. CASE Delete(p)
  <2> PICK S : S = txn[p].kept
    OBVIOUS
  <2>1. tasks' = [u \in Tasks |-> IF u \in S
           THEN [life |-> "deleted", parent |-> Root, status |-> "not_started",
                 owner |-> Inherit, version |-> 0]
           ELSE tasks[u]]
        /\ edges' = edges \ Incident(S)
    BY <1>4 DEF Delete
  <2>2. \A u \in Tasks : IF u \in S THEN tasks'[u].life = "deleted" ELSE tasks'[u] = tasks[u]
    BY <2>1
  <2> QED
    BY <2>1, <2>2, TameStep DEF Live, Done
<1> QED
  BY <1>2, <1>3, <1>4

\* A move has the task and its new scope, whose task is not done.
LEMMA MoveRespects ==
  ASSUME Inv, NEW p \in Clients, CompletionInv(p), Move(p)
  PROVE  Respects(p)
<1> PICK r, t, o : r = Request(p) /\ t = r.task /\ o = r.other
  OBVIOUS
<1>1. /\ At(p, "closing") /\ r.op = "move" /\ UNCHANGED edges
      /\ tasks' = [tasks EXCEPT ![t].parent = o, ![t].version = @ + 1]
  BY DEF Move, Writes
<1>2. Closes(p) /\ RequestOK(r) /\ Guards(p) \subseteq txn[p].held
  BY <1>1, Writer
<1>3. t \in Tasks
  BY <1>1, <1>2 DEF RequestOK, ScopeIds
<1>4. Holds(p, Scope(o)) /\ Holds(p, Task(t))
  <2>1. Guards(p) = {X(Scope(txn[p].kept)), X(Scope(o)), X(Task(t))}
    BY <1>1 DEF Guards, Links, Answers
  <2>2. X(Scope(o)).lock = Scope(o) /\ X(Task(t)).lock = Task(t)
    BY DEF X
  <2> QED
    BY <1>2, <2>1, <2>2 DEF Holds
<1>5. /\ tasks'[t].life = tasks[t].life /\ tasks'[t].parent = o /\ tasks'[t].status = tasks[t].status
      /\ \A u \in Tasks : u # t => tasks'[u] = tasks[u]
  <2> PICK f, g : f = tasks /\ g = tasks'
    OBVIOUS
  <2>1. f = [u \in Tasks |-> f[u]]
    BY DEF Inv, Stored
  <2>2. g = [f EXCEPT ![t].parent = o, ![t].version = @ + 1]
    BY <1>1
  <2>3. g[t] = [f[t] EXCEPT !.parent = o, !.version = f[t].version + 1]
        /\ \A u \in Tasks : u # t => g[u] = f[u]
    BY <1>3, <2>1, <2>2
  <2> PICK a, x, n : a = f[t] /\ x = g[t] /\ n = a.version + 1
    OBVIOUS
  <2>4. a = [life |-> a.life, parent |-> a.parent, status |-> a.status,
             owner |-> a.owner, version |-> a.version]
    BY <1>3, RowRead DEF Inv
  <2>5. x = [a EXCEPT !.parent = o, !.version = n]
    BY <2>3
  <2>6. x = [life |-> a.life, parent |-> o, status |-> a.status, owner |-> a.owner, version |-> n]
    BY <2>4, <2>5
  <2> QED
    BY <2>3, <2>6
<1>6. \A u \in Tasks : Live(u)' = Live(u) /\ Done(u)' = Done(u)
  BY <1>5 DEF Live, Done
<1>7. \A u \in Tasks : u = o => Undone(u)'
  <2>1. o # Root => Undone(o)
    BY <1>1, <1>2 DEF CompletionInv, Settled
  <2> QED
    BY <1>6, <2>1, FiniteTasks DEF Undone
<1> QED
  BY <1>1, <1>4, <1>5, <1>6, <1>7 DEF Respects

\* A completion has the task and both scopes, and nothing that is not done before it.
LEMMA CompleteRespects ==
  ASSUME Inv, NEW p \in Clients, CompletionInv(p), Complete(p)
  PROVE  Respects(p)
<1> PICK r, t, owner : r = Request(p) /\ t = r.task /\ owner = txn[p].kept
  OBVIOUS
<1>1. /\ At(p, "closing") /\ r.op = "complete" /\ UNCHANGED edges
      /\ tasks' = [tasks EXCEPT ![t].status = "done", ![t].owner = owner, ![t].version = @ + 1]
  BY DEF Complete, Writes
<1>2. Closes(p) /\ Under(p) /\ RequestOK(r)
  BY <1>1, Writer
<1>3. t \in Tasks
  BY <1>1, <1>2 DEF RequestOK, ScopeIds
<1>4. /\ tasks'[t].life = tasks[t].life /\ tasks'[t].parent = tasks[t].parent
      /\ tasks'[t].status = "done"
      /\ \A u \in Tasks : u # t => tasks'[u] = tasks[u]
  <2> PICK f, g, done : f = tasks /\ g = tasks' /\ done = "done"
    OBVIOUS
  <2>1. f = [u \in Tasks |-> f[u]]
    BY DEF Inv, Stored
  <2>2. g = [f EXCEPT ![t].status = done, ![t].owner = owner, ![t].version = @ + 1]
    BY <1>1
  <2>3. g[t] = [f[t] EXCEPT !.status = done, !.owner = owner, !.version = f[t].version + 1]
        /\ \A u \in Tasks : u # t => g[u] = f[u]
    BY <1>3, <2>1, <2>2
  <2> PICK a, x, n : a = f[t] /\ x = g[t] /\ n = a.version + 1
    OBVIOUS
  <2>4. a = [life |-> a.life, parent |-> a.parent, status |-> a.status,
             owner |-> a.owner, version |-> a.version]
    BY <1>3, RowRead DEF Inv
  <2>5. x = [a EXCEPT !.status = done, !.owner = owner, !.version = n]
    BY <2>3
  <2>6. x = [life |-> a.life, parent |-> a.parent, status |-> done, owner |-> owner, version |-> n]
    BY <2>4, <2>5
  <2> QED
    BY <2>3, <2>6
<1>5. ASSUME Live(t)
      PROVE  /\ Holds(p, Task(t)) /\ Holds(p, Scope(t)) /\ Holds(p, Scope(tasks[t].parent))
             /\ Completable(t)
  <2>1. X(Task(t)) \in txn[p].held
    BY <1>1, <1>2 DEF CompletionInv, TaskHeld, OpensTask
  <2>2. {X(Scope(t)), X(Scope(tasks[t].parent))} \subseteq txn[p].held
    BY <1>1, <1>2, <1>5 DEF CompletionInv, ScopesHeld
  <2>3. \A l : X(l).lock = l
    BY DEF X
  <2>4. Completable(t)
    BY <1>1, <1>2 DEF CompletionInv, Settled
  <2> QED
    BY <2>1, <2>2, <2>3, <2>4 DEF Holds
<1>6. \A u \in Tasks : /\ Live(u)' = Live(u) /\ tasks'[u].parent = tasks[u].parent
                       /\ (Done(u) => Done(u)') /\ (Done(u)' => Done(u) \/ u = t)
  BY <1>4 DEF Live, Done
<1> QED
  BY <1>1, <1>5, <1>6 DEF Respects

\* A link has the scope of its tasks, whose second is not done.
LEMMA LinkRespects ==
  ASSUME Inv, NEW p \in Clients, CompletionInv(p), ChangeDependency(p) \/ AcceptRequest(p)
  PROVE  Respects(p)
<1> PICK r, kept, a : r = Request(p) /\ kept = txn[p].kept /\ a = asks[r.other]
  OBVIOUS
<1>1. /\ At(p, "closing") /\ r.op \in Links \cup {"accept"} /\ UNCHANGED tasks /\ ~Broken(r, kept)
  BY DEF ChangeDependency, AcceptRequest, Writes
<1>2. Closes(p) /\ RequestOK(r) /\ Guards(p) \subseteq txn[p].held
  BY <1>1, Writer
<1> PICK e, s : e = NewEdge(p) /\ s = EdgeScope(p)
  OBVIOUS
<1>3. \A u \in Tasks : Live(u)' = Live(u) /\ Done(u)' = Done(u)
  BY <1>1 DEF Live, Done
<1>4. edges' \subseteq edges \cup {e} /\ (edges' \subseteq edges \/ (Inserts(p) /\ Inscope(e[2], s)))
  <2>1. CASE ChangeDependency(p)
    <3>1. ChangeEdge(r.op, r.task, r.other, kept.scope) /\ r.op \in Links
      BY <2>1 DEF ChangeDependency, Writes
    <3>2. CASE r.op = "link"
      <4>1. edges' = edges \cup {<<r.task, r.other>>}
        BY <3>1, <3>2 DEF ChangeEdge
      <4>2. Inserts(p) /\ e = <<r.task, r.other>> /\ s = kept.scope
        BY <1>2, <3>2 DEF Inserts, NewEdge, EdgeScope, Answers, Closes
      <4>3. ~EdgeBroken(r.task, r.other, kept.scope)
        BY <1>1, <3>1, <3>2 DEF Broken, LinkBroken
      <4> QED
        BY <4>1, <4>2, <4>3 DEF EdgeBroken, Inscope
    <3>3. CASE r.op # "link"
      BY <3>1, <3>3 DEF ChangeEdge
    <3> QED
      BY <3>2, <3>3
  <2>2. CASE AcceptRequest(p)
    <3>1. ChangeEdge(a.op, a.pred, a.succ, a.scope) /\ r.op = "accept"
      BY <2>2 DEF AcceptRequest, Writes
    <3>2. CASE a.op = "link"
      <4>1. edges' = edges \cup {<<a.pred, a.succ>>}
        BY <3>1, <3>2 DEF ChangeEdge
      <4>2. Inserts(p) /\ e = <<a.pred, a.succ>> /\ s = a.scope
        BY <3>1, <3>2 DEF Inserts, NewEdge, EdgeScope, Answers
      <4>3. ~EdgeBroken(a.pred, a.succ, a.scope)
        BY <1>1, <3>1, <3>2 DEF Broken, AcceptBroken
      <4> QED
        BY <4>1, <4>2, <4>3 DEF EdgeBroken, Inscope
    <3>3. CASE a.op # "link"
      BY <3>1, <3>3 DEF ChangeEdge
    <3> QED
      BY <3>2, <3>3
  <2> QED
    BY <2>1, <2>2
<1>5. CASE edges' \subseteq edges
  BY <1>1, <1>5, QuietRespects
<1>6. CASE Inserts(p) /\ Inscope(e[2], s)
  <2>1. Undone(e[2])
    BY <1>2, <1>6 DEF CompletionInv, Settled
  <2>2. Holds(p, Scope(s))
    <3>1. X(Scope(s)) \in txn[p].held /\ X(Scope(s)).lock = Scope(s)
      BY <1>1, <1>2 DEF Guards, Links, Answers, X
    <3> QED
      BY <3>1 DEF Holds
  <2>3. tasks'[e[2]].parent = s
    BY <1>1, <1>6 DEF Inscope
  <2>4. Undone(e[2])'
    BY <1>1, <2>1 DEF Undone, Live, Done
  <2> QED
    BY <1>1, <1>3, <1>4, <2>2, <2>3, <2>4 DEF Respects
<1> QED
  BY <1>4, <1>5, <1>6

Completing == CompletionHolds /\ \A p \in Clients : CompletionInv(p)

\* Every step keeps what completions rest on.
LEMMA CompletingStep ==
  ASSUME Operations \cap {"create", "reopen"} = {}, Inv, Inv', Completing, [Next]_vars
  PROVE  Completing'
<1>1. CASE UNCHANGED vars
  <2> USE <1>1 DEF vars, rows
  <2>1. CompletionHolds'
    BY DEF Completing, CompletionHolds, Live, Done, Children, Existing, Exists, Waiting, Predecessors
  <2>2. ASSUME NEW p \in Clients PROVE CompletionInv(p)'
    <3>1. /\ Inserts(p)' = Inserts(p) /\ NewEdge(p)' = NewEdge(p) /\ EdgeScope(p)' = EdgeScope(p)
          /\ Under(p)' = Under(p) /\ Closes(p)' = Closes(p) /\ Claims(p)' = Claims(p)
          /\ Request(p)' = Request(p)
      BY DEF Inserts, NewEdge, EdgeScope, Under, Closes, Claims, Request
    <3>2. \A t : /\ Undone(t)' = Undone(t) /\ Completable(t)' = Completable(t) /\ Live(t)' = Live(t)
                 /\ \A s : Inscope(t, s)' = Inscope(t, s)
      BY DEF Undone, Completable, Live, Done, Children, Existing, Exists, Waiting, Predecessors, Inscope
    <3> QED
      BY <3>1, <3>2 DEF Completing, CompletionInv, Chosen, TaskHeld, ScopesHeld, Settled
  <2> QED
    BY <2>1, <2>2 DEF Completing
<1>2. CASE Next
  <2>1. PICK q \in Clients : Send(q) \/ Resend(q) \/ Step(q)
    BY <1>2 DEF Next
  <2>2. CompletionInv(q) /\ AsksAdvance
    BY <2>1, AsksStay DEF Completing
  <2>3. ~Create(q) /\ ~Reopen(q)
    <3>1. At(q, "closing") => Request(q).op \in Operations
      BY <2>2, Writer DEF CompletionInv, Chosen
    <3> QED
      BY <3>1 DEF Create, Reopen, Writes
  <2>4. Respects(q)
    <3>1. CASE UNCHANGED tasks /\ edges' = edges
      BY <3>1, QuietRespects
    <3>2. CASE Update(q) \/ ChangeStatus(q) \/ AddBlocker(q) \/ ResolveBlocker(q)
      BY <2>2, <3>2, EditRespects
    <3>3. CASE ChangeOwner(q) \/ Archive(q) \/ Delete(q)
      BY <3>3, RowsRespect
    <3>4. CASE Move(q) \/ Complete(q)
      BY <2>2, <3>4, MoveRespects, CompleteRespects
    <3>5. CASE ChangeDependency(q) \/ AcceptRequest(q)
      BY <2>2, <3>5, LinkRespects
    <3> QED
      BY <2>1, <2>3, <3>1, <3>2, <3>3, <3>4, <3>5
         DEF Step, Send, Resend, Lock, Deadlock, Prepare, Decide, Refuse, Rollback, Expire, Outdate, Mark,
             EditTasks, ChangeDependencies, AskForDependency, RejectRequest, FollowAndBlock, Follow,
             ChangeLifecycle, ChangeTree, rows
  <2>5. CompletionHolds'
    BY <2>4, CompletionKept DEF Completing, Inv
  <2>6. CompletionInv(q)'
    <3>1. CASE Send(q) \/ Resend(q)
      BY <2>2, <3>1, SentSettled
    <3>2. CASE Lock(q) \/ Prepare(q) \/ Decide(q)
      BY <2>2, <3>2, LockedSettled, PreparedSettled, DecidedSettled
    <3>3. CASE txn' = [txn EXCEPT ![q] = Ended(q)]
      BY <2>2, <3>3, EndedSettled
    <3> QED
      BY <2>1, <2>3, <3>1, <3>2, <3>3
         DEF Step, Deadlock, Refuse, Rollback, Expire, Outdate, Mark, Finish,
             EditTasks, Update, ChangeStatus, Edit, ChangeDependencies, ChangeDependency,
             AskForDependency, AcceptRequest, RejectRequest, FollowAndBlock, Follow, AddBlocker,
             ResolveBlocker, ChangeLifecycle, Complete, ChangeOwner, ChangeTree, Move, Archive, Delete
  <2>7. \A p \in Clients : p # q => txn'[p] = txn[p]
    <3>1. \E x : txn' = [txn EXCEPT ![q] = x]
      BY <2>1 DEF Step, Send, Asks, Resend, Lock, Prepare, Decide, Deadlock, Refuse, Rollback,
             Expire, Outdate, Mark, Finish,
             EditTasks, Create, Update, ChangeStatus, Edit, ChangeDependencies, ChangeDependency,
             AskForDependency, AcceptRequest, RejectRequest, FollowAndBlock, Follow, AddBlocker,
             ResolveBlocker, ChangeLifecycle, Complete, Reopen, ChangeOwner, ChangeTree, Move, Archive, Delete
    <3> QED
      BY <3>1 DEF Inv
  <2>8. \A p \in Clients : CompletionInv(p)'
    BY <2>2, <2>4, <2>6, <2>7, OthersSettled DEF Completing, Inv
  <2> QED
    BY <2>5, <2>8 DEF Completing
<1> QED
  BY <1>1, <1>2

-----------------------------------------------------------------------------
(* The theorems.                                                           *)

\* Whatever transactions cross each other, the tables keep their types and
\* every task its parent, what a transaction has locked stays as it read it,
\* and nobody else's change takes away what it decided on.
THEOREM TreeInvariant == Spec => []Inv
<1>1. Inv /\ [Next]_vars => Inv'
  BY NextInv
<1> QED
  BY InitInv, <1>1, PTL DEF Spec

\* The rows keep their types, an existing task's parent exists (a delete that
\* would leave a child behind is rolled back by the foreign key), and a
\* connection that is free holds no lock.
THEOREM TypeCorrect == Spec => []TypeOK
<1>1. Inv => TypeOK
  BY DEF Inv, Stored, Rooted, TypeOK, ClientInv, TxnOK, ScopeIds
<1> QED
  BY TreeInvariant, <1>1, PTL

\* However links, moves, archives and deletes cross each other, the enabled
\* dependencies of every scope connect live siblings without a cycle.
THEOREM DependenciesStaySound == Spec => []DependenciesAreSound
<1>1. Inv => DependenciesAreSound
  BY DEF Inv
<1> QED
  BY TreeInvariant, <1>1, PTL

\* A request takes effect once in a scope, however often its client sends it:
\* by the record of its key, or by the version it was prepared with.
THEOREM AppliesOnce == Spec => []AppliedOnce
<1>1. Inv => AppliedOnce
  BY DEF Inv
<1> QED
  BY TreeInvariant, <1>1, PTL

\* Who changes a task leaves it with a higher version or deletes it, archiving
\* with versions read before the locks included.
THEOREM VersionsGrow == Spec => VersionsAdvance
<1>1. Inv /\ [Next]_vars =>
        [\A t \in Existing :
           tasks'[t] # tasks[t] => \/ tasks'[t].version > tasks[t].version
                                  \/ tasks'[t].life = "deleted"]_vars
  BY NextInv DEF Newer
<1> QED
  BY TreeInvariant, <1>1, PTL DEF Spec, VersionsAdvance

\* Where nobody creates or reopens a task, a completed task keeps no child and
\* no predecessor that is not completed, whatever completions, moves, links,
\* edits, archives and deletes cross each other: as long as it is so at first.
THEOREM CompletionStays ==
  ASSUME Operations \cap {"create", "reopen"} = {}
  PROVE  Spec /\ CompletionHolds => []CompletionHolds
<1>1. Init /\ CompletionHolds => Completing
  BY DEF Init, Idle, Completing, CompletionInv, Chosen, TaskHeld, ScopesHeld, Settled, Request,
         Under, Closes
<1>2. Inv /\ Inv' /\ Completing /\ [Next]_vars => Completing'
  BY CompletingStep
<1>3. Completing => CompletionHolds
  BY DEF Completing
<1> QED
  BY <1>1, <1>2, <1>3, TreeInvariant, PTL DEF Spec

=============================================================================
