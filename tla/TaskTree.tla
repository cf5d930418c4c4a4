----------------------------- MODULE TaskTree -----------------------------
(***************************************************************************)
(* The tasks of one project: their tree, their dependencies, their owners  *)
(* and their completion, as the transactions of the server change them.    *)
(*                                                                         *)
(* PostgreSQL runs these transactions at READ COMMITTED: what a            *)
(* transaction reads is what others have committed, and only the rows it   *)
(* has locked stay as it read them.  A transaction is therefore not one    *)
(* step here.  It opens (first lock, if the handler has one), prepares     *)
(* (reads what it needs to know which rows to lock), takes these locks in  *)
(* the handler's order, decides on what is committed then, takes the locks *)
(* its writes need (an INSERT or UPDATE locks the rows its foreign keys    *)
(* name against FOR UPDATE), and commits.  A refusal, a deadlock or a      *)
(* constraint of the schema ends it without effect.                        *)
(*                                                                         *)
(* Each request carries what its client was shown when it was prepared     *)
(* (versions and the set of affected tasks); the handlers compare it with  *)
(* what they find.  A client may send a request again, unchanged, when the *)
(* answer is lost.                                                         *)
(*                                                                         *)
(* Task ids are numbers: their order stands for that of the uuids, by      *)
(* which locks on several rows are ordered.  `frozen` is left out: the     *)
(* code writes it together with base_status and the schema ties them.      *)
(***************************************************************************)
EXTENDS Integers, FiniteSets, SequencesExt

CONSTANTS
  Tasks,          \* task ids
  Members,        \* the project's active memberships
  Admins,         \* those in admin mode
  ProjectOwner,   \* projects.owner_membership_id
  Inherit,        \* a task without an owner of its own; not a member
  Clients,        \* the connections that run transactions
  Operations,     \* the operations the clients use
  Seeds,          \* the trees and dependencies a behaviour may start from
  MaxRequests,    \* bound on the requests ever prepared
  MaxTries        \* bound on how often a request is sent

Root == 0         \* the parent of top-level tasks

ASSUME IdsAssumption == Tasks \subseteq Nat \ {Root} /\ IsFiniteSet(Tasks)
ASSUME MembersAssumption ==
  Inherit \notin Members /\ Admins \subseteq Members /\ ProjectOwner \in Members
ASSUME BoundsAssumption == MaxRequests \in Nat /\ MaxTries \in Nat

VARIABLES
  tasks,       \* the rows of tasks
  edges,       \* task_dependencies that are enabled: <<predecessor, successor>>
  disabled,    \* task_dependencies that an archive switched off
  graph,       \* graph_version of each sibling scope, named by the parent
  follows,     \* task_follows: <<source, target>>
  blockers,    \* tasks with an unresolved blocker
  asks,        \* task_dependency_change_requests
  recorded,    \* task_operation_idempotency: requests that were answered
  txn,         \* what each client's connection is doing
  prepared,    \* how many requests were ever prepared
  effects      \* history: how often each request took effect, and in which
               \* scope when it changes a dependency (follows and asking for
               \* such a change are not counted)

rows == <<tasks, edges, disabled, graph, follows, blockers, asks>>
vars == <<rows, recorded, txn, prepared, effects>>

Row == [life : {"unborn", "live", "archived", "deleted"}, parent : Tasks \cup {Root},
        status : {"not_started", "in_progress", "done"},
        owner : Members \cup {Inherit}, version : Nat]

-----------------------------------------------------------------------------
(* The tree and the graph, as the domain's pure functions read them.       *)

Exists(t) == tasks[t].life \in {"live", "archived"}
Live(t)   == tasks[t].life = "live"
Done(t)   == tasks[t].status = "done"

Existing == {t \in Tasks : Exists(t)}

(* What can be reached from the set S along the relation R. *)
Reach(R, S) ==
  LET step[n \in Nat] ==
        IF n = 0 THEN S
        ELSE LET near == step[n - 1] IN near \cup {e[2] : e \in {f \in R : f[1] \in near}}
  IN  step[Cardinality(Tasks)]

ParentOf == {<<tasks[t].parent, t>> : t \in Existing}
ChildOf  == {<<t, tasks[t].parent>> : t \in Existing}

Children(t)  == {c \in Existing : tasks[c].parent = t}
Subtree(t)   == Reach(ParentOf, {t})
Ancestors(t) == Reach(ChildOf, {tasks[t].parent}) \ {Root}
Depth(t)     == Cardinality(Ancestors(t))

Cyclic(R) == \E e \in R : e[1] \in Reach(R, {e[2]})

(* A behaviour starts from tasks whose parents are there, and from         *)
(* dependencies that connect live siblings without a cycle. *)
SoundSeed(rowOf, E) ==
  LET exists(t) == rowOf[t].life \in {"live", "archived"} IN
  /\ \A t \in Tasks : exists(t) /\ rowOf[t].parent # Root => exists(rowOf[t].parent)
  /\ \A e \in E : /\ rowOf[e[1]].life = "live" /\ rowOf[e[2]].life = "live"
                  /\ rowOf[e[1]].parent = rowOf[e[2]].parent
  /\ ~Cyclic(E)

ASSUME SeedsAssumption ==
  /\ Seeds \subseteq [tasks : [Tasks -> Row], edges : SUBSET (Tasks \X Tasks)]
  /\ \A seed \in Seeds : SoundSeed(seed.tasks, seed.edges)

(* The owner a task names, or its nearest ancestor that names one. *)
EffectiveOwner(t) ==
  LET climb[n \in Nat] ==
        IF n = 0 THEN t
        ELSE LET u == climb[n - 1] IN
             IF tasks[u].owner # Inherit \/ tasks[u].parent = Root
               THEN u ELSE tasks[u].parent
  IN  tasks[climb[Cardinality(Tasks)]].owner

(* resolveProjectOwners fails on a tree that is none. *)
Authorized(actor, affected) ==
  /\ ~Cyclic(ParentOf)
  /\ actor \in Admins \/ \A t \in affected : EffectiveOwner(t) = actor

Ends(E) == UNION {{e[1], e[2]} : e \in E}

Incident(S) == {e \in edges : e[1] \in S \/ e[2] \in S}

Predecessors(t) == {e[1] : e \in {f \in edges : f[2] = t}}

Waiting(t) == {p \in Predecessors(t) : Live(p) /\ ~Done(p)}

(* The target and the completed tasks that follow from it. *)
CompletedClosure(t) ==
  Reach({e \in edges : Live(e[2]) /\ Done(e[2])}, {t})

(* Descendants that take their owner from t. *)
Inheritors(t) ==
  Reach({e \in ParentOf : tasks[e[2]].owner = Inherit}, {t})

(* validateTaskDependencyGraph on the edges of one scope. *)
SoundEdges(E) ==
  /\ \A e \in E : /\ {e[1], e[2]} \subseteq Existing
                  /\ Live(e[1]) /\ Live(e[2])
                  /\ tasks[e[1]].parent = tasks[e[2]].parent
  /\ ~Cyclic(E)

ScopeEdges(s) == {e \in edges : tasks[e[1]].parent = s}

-----------------------------------------------------------------------------
(* Requests.  A request names a task and, by its kind, another task, a     *)
(* member, or a dependency change request; `shown` is what the client saw. *)

Blocks       == {"block", "unblock"}
Edits        == {"update", "start"} \cup Blocks
Links        == {"link", "unlink"}
Answers      == {"accept", "reject"}
Follows      == {"follow", "unfollow"}
Destructions == {"archive", "delete"}

(* Mutant: createTask writes no idempotency record. *)
RecordingNoCreate == {"complete", "reopen", "own"}

Recording    == {"create", "complete", "reopen", "own"}

(* Mutant: archiveTask does not lock the project. *)
OpensProjectNoArchive == {"create", "reopen", "own", "delete"}

OpensProject == {"create", "reopen", "own"} \cup Destructions

(* computeTaskImpactSet, the parts that depend on tasks and dependencies. *)
Impact(S, t) ==
  [affected |-> S, incident |-> Incident(S), frozen |-> {a \in Ancestors(t) : Done(a)},
   scopes |-> {tasks[u].parent : u \in S}]

Versions(S) == [t \in S |-> tasks[t].version]
Owners(S)   == [t \in S |-> EffectiveOwner(t)]

(* What the server computes again and compares with what the client was    *)
(* shown: versions, graph versions, and the impact of the operation.       *)
EditView(t)      == <<tasks[t].version>>
LinkView(t)      == <<graph[tasks[t].parent]>>
AnswerView(q)    == <<graph[asks[q].scope]>>
FollowView(t, o) == <<Impact({t, o}, t)>>
MoveView(t, o)   == <<Impact(Subtree(t), t), tasks[t].version, graph[tasks[t].parent], graph[o]>>
CompleteView(t)  == <<tasks[t].version, graph[tasks[t].parent]>>
ReopenView(t)    == <<Versions(CompletedClosure(t)), Owners(CompletedClosure(t))>>
OwnView(t)       == <<tasks[t].version, Subtree(t), Versions(Inheritors(t))>>
SubtreeView(t)   == <<Impact(Subtree(t), t), tasks[t].version, graph[tasks[t].parent]>>

(* The requests the forms of the page can make of what they show.           *)
Asked(op, t, o, shown) == [op |-> op, task |-> t, other |-> o, shown |-> shown]

Pairs == {p \in Existing \X Existing : p[1] # p[2]}

CreateRequests ==
  {Asked("create", t, m, <<>>) : t \in {Root} \cup Existing, m \in Members \cup {Inherit}}

UpdateRequests == {Asked("update", t, t, EditView(t)) : t \in Existing}
StatusRequests == {Asked("start", t, t, EditView(t)) : t \in Existing}
BlockRequests  == {Asked(op, t, t, EditView(t)) : op \in Blocks, t \in Existing}

LinkRequests ==
  {Asked(op, p[1], p[2], LinkView(p[1])) :
     op \in Links, p \in {q \in Pairs : tasks[q[1]].parent = tasks[q[2]].parent}}

AnswerRequests ==
  {Asked(op, asks[q].pred, q, AnswerView(q)) :
     op \in Answers, q \in {k \in DOMAIN asks : Exists(asks[k].pred)}}

FollowRequests == {Asked(op, p[1], p[2], FollowView(p[1], p[2])) : op \in Follows, p \in Pairs}

MoveRequests ==
  {Asked("move", t, o, MoveView(t, o)) : t \in Existing, o \in {Root} \cup Existing}

CompleteRequests == {Asked("complete", t, t, CompleteView(t)) : t \in Existing}
ReopenRequests   == {Asked("reopen", t, t, ReopenView(t)) : t \in Existing}

OwnRequests ==
  {Asked("own", t, m, OwnView(t)) : t \in Existing, m \in Members \cup {Inherit}}

DestructionRequests ==
  {Asked(op, t, t, SubtreeView(t)) : op \in Destructions, t \in Existing}

NoRequest == [key |-> 0]

(* Who may change a dependency: one who stands above both tasks or owns     *)
(* both.  Who owns one of them may ask the owner of the other.              *)
LinksDirectly(r) ==
  LET s == tasks[r.task].parent IN
  \/ r.actor \in Admins
  \/ s = Root /\ r.actor = ProjectOwner
  \/ s # Root /\ EffectiveOwner(s) = r.actor
  \/ EffectiveOwner(r.task) = r.actor /\ EffectiveOwner(r.other) = r.actor

MayAsk(r) ==
  ~LinksDirectly(r) /\ r.actor \in {EffectiveOwner(r.task), EffectiveOwner(r.other)}

-----------------------------------------------------------------------------
(* Row locks.  X is FOR UPDATE, N the lock of an UPDATE that changes no     *)
(* key, K the FOR KEY SHARE by which a foreign key holds the row it names.  *)
(* All but N and K, and K and K, exclude each other.                        *)

X(l) == [lock |-> l, mode |-> "X"]
N(l) == [lock |-> l, mode |-> "N"]
K(l) == [lock |-> l, mode |-> "K"]

Project  == <<"project", Root>>
Task(t)  == <<"task", t>>
Scope(s) == <<"scope", s>>
Ask(q)   == <<"ask", q>>

(* Mutant: lockGraphScope locks nothing. *)
ConflictWithoutScopes(a, b) ==
  a.lock = b.lock /\ a.lock[1] # "scope" /\ {a.mode, b.mode} \notin {{"K"}, {"K", "N"}}

Conflict(a, b) ==
  a.lock = b.lock /\ {a.mode, b.mode} \notin {{"K"}, {"K", "N"}}

(* p waits for q: q holds what p is to take next. *)
WaitsFor(p, q) ==
  /\ p # q
  /\ txn[p].todo # <<>>
  /\ \E h \in txn[q].held : Conflict(h, Head(txn[p].todo))

Deadlocked(p) == p \in Reach({e \in Clients \X Clients : WaitsFor(e[1], e[2])},
                             {q \in Clients : WaitsFor(p, q)})

(* The elements of S from the least to the greatest by key. *)
Sorted(S, key(_)) ==
  CHOOSE s \in SetToSeqs(S) : \A i, j \in DOMAIN s :
    i < j => key(s[i]) < key(s[j]) \/ (key(s[i]) = key(s[j]) /\ s[i] < s[j])

ById(t)         == t
Rows(S, key(_)) == LET s == Sorted(S, key) IN [i \in DOMAIN s |-> X(Task(s[i]))]
Scopes(S)       == LET s == Sorted(S, ById) IN [i \in DOMAIN s |-> X(Scope(s[i]))]

(* Locks taken before anything else is read. *)
Opening(r) ==
  IF r.op \in OpensProject THEN <<X(Project)>>
  ELSE IF r.op \in Edits \cup {"complete"} THEN <<X(Task(r.task))>>
  ELSE IF r.op \in Answers THEN <<X(Ask(r.other))>>
  ELSE <<>>

(* Locks whose rows the transaction finds by what it reads first. *)
MoveLocks(r)     == Scopes({tasks[r.task].parent, r.other}) \o <<X(Task(r.task))>>
CompleteLocks(r) == Scopes({tasks[r.task].parent, r.task})
ReopenLocks(r)   == Rows(CompletedClosure(r.task), ById)
OwnLocks(r)      == <<X(Task(r.task))>> \o Rows(Subtree(r.task) \ {r.task}, ById)
SubtreeLocks(r)  == Rows(Subtree(r.task), Depth) \o <<X(Scope(tasks[r.task].parent))>>

Working(r) ==
  CASE r.op \in Edits \cup {"create"} -> <<>>
    [] r.op \in Follows -> Rows({r.task, r.other}, ById)
    [] r.op \in Links -> <<X(Scope(tasks[r.task].parent))>>
    [] r.op \in Answers -> <<X(Scope(asks[r.other].scope))>>
    [] r.op = "move" -> MoveLocks(r)
    [] r.op = "complete" -> CompleteLocks(r)
    [] r.op = "reopen" -> ReopenLocks(r)
    [] r.op = "own" -> OwnLocks(r)
    [] r.op \in Destructions -> SubtreeLocks(r)

(* Every table an operation writes to names the project. *)
EdgeWrites(a, b) == <<K(Project), K(Task(a)), K(Task(b))>>

ArchiveWrites(r) ==
  LET above == Sorted({tasks[u].parent : u \in Subtree(r.task)}, ById)
  IN  [i \in DOMAIN above |-> N(Scope(above[i]))]

DeleteWrites(r) ==
  LET S    == Subtree(r.task)
      mine == Sorted({q \in DOMAIN asks : {asks[q].pred, asks[q].succ} \cap S # {}}, ById)
  IN  [i \in DOMAIN mine |-> X(Ask(mine[i]))] \o Scopes(S)

Closing(r) ==
  LET t == r.task  o == r.other IN
  CASE r.op = "create" -> IF t = Root THEN <<K(Scope(t))>> ELSE <<K(Scope(t)), K(Task(t))>>
    [] r.op \in Links -> IF r.op = "unlink" /\ LinksDirectly(r) THEN <<K(Project)>>
                         ELSE EdgeWrites(t, o)
    [] r.op = "accept" /\ asks[o].op = "link" -> EdgeWrites(asks[o].pred, asks[o].succ)
    [] r.op = "move" /\ o # Root -> <<K(Project), K(Task(o))>>
    [] r.op = "archive" -> ArchiveWrites(r)
    [] r.op = "delete" -> DeleteWrites(r)
    [] r.op \in {"reopen", "own"} -> <<>>
    [] OTHER -> <<K(Project)>>

-----------------------------------------------------------------------------
(* What the handlers check.                                                *)

(* evaluateTaskReopen *)
Reopenable(r) ==
  /\ Live(r.task) /\ Done(r.task)
  /\ \A a \in Ancestors(r.task) : Live(a) => ~Done(a)
  /\ r.shown = ReopenView(r.task)

(* What is checked before the locks are known. *)
Prepared(r) ==
  /\ r.op # "create" => Exists(r.task)
  /\ r.op = "create" => r.task = Root \/ Exists(r.task)
  /\ r.op \in Answers => asks[r.other].status = "pending"
  /\ r.op \in Links =>
       Exists(r.other) /\ tasks[r.task].parent = tasks[r.other].parent
  /\ r.op \in Follows => Exists(r.other)
  /\ r.op = "move" =>
       (r.other = Root \/ Exists(r.other)) /\ tasks[r.task].parent # r.other
  /\ r.op = "archive" => tasks[r.task].parent = Root
  /\ r.op = "delete" => tasks[r.task].parent # Root
  /\ r.op \in Destructions => r.shown[1] = Impact(Subtree(r.task), r.task)
  /\ r.op = "reopen" => Reopenable(r)

(* validateChangedEdge, on the dependencies of the scope that was locked *)
EdgeChangeable(op, a, b, scope) ==
  LET E == ScopeEdges(scope) IN
  /\ Exists(a) /\ Exists(b)
  /\ ~Done(a) /\ ~Done(b)
  /\ IF op = "link"
       THEN <<a, b>> \notin E /\ SoundEdges(E \cup {<<a, b>>})
       ELSE <<a, b>> \in E /\ SoundEdges(E \ {<<a, b>>})

(* evaluateDependencyRequestAcceptance: the request still describes what   *)
(* it was made for. *)
Current(q) ==
  LET a == asks[q] IN
  /\ graph[a.scope] = a.graph
  /\ \A t \in {a.pred, a.succ} : Live(t) /\ tasks[t].parent = a.scope
  /\ EffectiveOwner(a.pred) = a.owners[1] /\ EffectiveOwner(a.succ) = a.owners[2]
  /\ EdgeChangeable(a.op, a.pred, a.succ, a.scope)

(* An answer that finds the request overtaken makes it stale; a wrong      *)
(* acceptor is refused, but only after the graph version was compared. *)
Outdated(r) ==
  /\ r.op \in Answers
  /\ LET a == asks[r.other] IN
     \/ r.shown # <<graph[a.scope]>> \/ graph[a.scope] # a.graph
     \/ r.op = "accept" /\ a.acceptor = r.actor /\ ~Current(r.other)

CreateAllowed(r) ==
  /\ r.task = Root => r.other # Inherit
  /\ r.task # Root => Authorized(r.actor, {r.task})
  /\ \E u \in Tasks : tasks[u].life = "unborn"

(* updateTask, changeStatus, addBlocker and resolveBlocker.  A status only  *)
(* changes from not started to in progress; a task may be blocked again.   *)
EditAllowed(r) ==
  LET t == r.task IN
  /\ Live(t) /\ ~Done(t)
  /\ r.shown = EditView(t)
  /\ Authorized(r.actor, {t})
  /\ r.op = "start" =>
       tasks[t].status = "not_started" /\ t \notin blockers /\ Waiting(t) = {}
  /\ r.op = "unblock" => t \in blockers

(* The tasks may have left the scope that was locked, or it may be gone.   *)
LinkAllowed(r, scope) ==
  /\ scope # Root => Exists(scope)
  /\ r.shown = <<graph[scope]>>
  /\ EdgeChangeable(r.op, r.task, r.other, scope)
  /\ LinksDirectly(r) \/ MayAsk(r)

AcceptAllowed(r) ==
  /\ r.shown = AnswerView(r.other)
  /\ asks[r.other].acceptor = r.actor
  /\ Current(r.other)

RejectAllowed(r) ==
  LET a == asks[r.other] IN
  /\ r.shown = AnswerView(r.other)
  /\ graph[a.scope] = a.graph
  /\ a.acceptor = r.actor

FollowAllowed(r) ==
  LET t == r.task  o == r.other IN
  /\ Exists(t) /\ Exists(o) /\ Live(t) /\ ~Done(t)
  /\ r.shown = FollowView(t, o)
  /\ (<<t, o>> \in follows) = (r.op = "unfollow")
  /\ Authorized(r.actor, {t})

MoveAllowed(r, parent) ==
  LET t == r.task  o == r.other IN
  /\ Exists(t) /\ tasks[t].parent = parent /\ ~Done(t)
  /\ r.shown = MoveView(t, o)
  /\ Incident({t}) = {}
  /\ o # Root => Live(o) /\ ~Done(o) /\ o \notin Subtree(t)
  /\ Authorized(r.actor, Subtree(t))

CompleteAllowed(r) ==
  LET t == r.task IN
  /\ Live(t) /\ ~Done(t)
  /\ r.shown = CompleteView(t)
  /\ \A c \in Children(t) : Live(c) => Done(c)
  /\ Waiting(t) = {}
  /\ t \notin blockers
  /\ Authorized(r.actor, {t})

(* A request whose policy is "deny" is refused for a task with completed    *)
(* ones after it; the model lets any reopening be such a request (Refuse). *)
Denied(r) == r.op = "reopen" /\ CompletedClosure(r.task) # {r.task}

ReopenAllowed(r) == Reopenable(r) /\ Authorized(r.actor, CompletedClosure(r.task))

OwnAllowed(r) ==
  LET t == r.task IN
  /\ Exists(t) /\ ~Done(t)
  /\ r.other = Inherit => tasks[t].parent # Root
  /\ r.shown = OwnView(t)
  /\ \A u \in Inheritors(t) : ~Done(u)
  /\ Authorized(r.actor, Inheritors(t))

ArchiveAllowed(r, versions) ==
  /\ r.shown = [SubtreeView(r.task) EXCEPT ![2] = versions[r.task]]
  /\ Authorized(r.actor, Subtree(r.task))

DeleteAllowed(r, completed) ==
  LET S == Subtree(r.task) IN
  /\ r.shown = SubtreeView(r.task)
  /\ completed = {}
  /\ \A e \in Incident(S) : {e[1], e[2]} \subseteq S \cup {u \in Tasks : ~Done(u)}
  /\ Authorized(r.actor, S)

Allowed(r, kept) ==
  CASE r.op = "create"   -> CreateAllowed(r)
    [] r.op \in Edits    -> EditAllowed(r)
    [] r.op \in Links    -> LinkAllowed(r, kept)
    [] r.op = "accept"   -> AcceptAllowed(r)
    [] r.op = "reject"   -> RejectAllowed(r)
    [] r.op \in Follows -> FollowAllowed(r)
    [] r.op = "move"     -> MoveAllowed(r, kept)
    [] r.op = "complete" -> CompleteAllowed(r)
    [] r.op = "reopen"   -> ReopenAllowed(r)
    [] r.op = "own"      -> OwnAllowed(r)
    [] r.op = "archive"  -> ArchiveAllowed(r, kept)
    [] r.op = "delete"   -> DeleteAllowed(r, kept)

(* What a transaction goes on to use of what it read before its locks:     *)
(* archiveTask the versions, deleteTask which tasks were completed.        *)
Kept(r) ==
  CASE r.op = "archive" -> Versions(Subtree(r.task))
    [] r.op = "delete" -> {u \in Subtree(r.task) : Done(u)}
    [] r.op \in Links \cup {"move"} -> tasks[r.task].parent
    [] OTHER -> <<>>

(* Of what it decided on: completeTask the owner it writes to the task,    *)
(* deleteTask the tasks it deletes, changeDependency whether it changes or *)
(* asks, still in the scope it locked. *)
Decided(r, kept) ==
  CASE r.op = "complete" -> EffectiveOwner(r.task)
    [] r.op \in Links -> [direct |-> LinksDirectly(r), scope |-> kept]
    [] r.op = "delete" -> Subtree(r.task)
    [] OTHER -> kept

(* What the schema refuses when the writes come: a foreign key without its *)
(* row, a referenced key that changes, a dependency between tasks that are *)
(* not in its scope, a top-level task without an owner, an archived and    *)
(* completed task that is archived again. *)
EdgeBroken(a, b, scope) == \E t \in {a, b} : ~Exists(t) \/ tasks[t].parent # scope

LinkBroken(r, kept) ==
  (r.op = "link" \/ ~kept.direct) /\ EdgeBroken(r.task, r.other, kept.scope)

AcceptBroken(a) == a.op = "link" /\ EdgeBroken(a.pred, a.succ, a.scope)

MoveBroken(r) ==
  \/ r.task \in UNION {{asks[q].pred, asks[q].succ} : q \in {k \in DOMAIN asks : asks[k].status # "gone"}}
  \/ r.task \in Ends(disabled)
  \/ IF r.other = Root THEN tasks[r.task].owner = Inherit ELSE ~Exists(r.other)

DeleteBroken(S) ==
  S \cap Ends(disabled) # {} \/ \E u \in S : ~(Children(u) \subseteq S)

ArchiveBroken(r) == \E u \in Subtree(r.task) : tasks[u].life = "archived" /\ Done(u)

Broken(r, kept) ==
  \/ r.op \in Links /\ LinkBroken(r, kept)
  \/ r.op = "accept" /\ AcceptBroken(asks[r.other])
  \/ r.op = "move" /\ MoveBroken(r)
  \/ r.op = "delete" /\ DeleteBroken(kept)
  \/ r.op = "archive" /\ ArchiveBroken(r)

-----------------------------------------------------------------------------
(* The steps of a transaction.                                             *)

Idle == [stage |-> "idle", request |-> NoRequest, tries |-> 0,
         todo |-> <<>>, held |-> {}, kept |-> <<>>]

Init ==
  /\ \E seed \in Seeds : tasks = seed.tasks /\ edges = seed.edges
  /\ disabled = {} /\ follows = {} /\ blockers = {} /\ asks = <<>>
  /\ graph = [s \in Tasks \cup {Root} |-> 0]
  /\ recorded = {}
  /\ txn = [p \in Clients |-> Idle]
  /\ prepared = 0
  /\ effects = [e \in (1..MaxRequests) \X (Tasks \cup {Root}) |-> 0]

Request(p) == txn[p].request
At(p, stage) == txn[p].stage = stage /\ txn[p].todo = <<>>

Opened(r, tries) == [stage |-> "opening", request |-> r, tries |-> tries,
                     todo |-> Opening(r), held |-> {}, kept |-> <<>>]

(* Mutant: a refusal returns the connection without ending the transaction. *)
EndedHolding(p) == [txn[p] EXCEPT !.stage = "idle"]

(* The connection is free; its client may still try the request again. *)
Ended(p) == IF txn[p].tries = MaxTries THEN Idle
            ELSE [Idle EXCEPT !.request = Request(p), !.tries = txn[p].tries]

Asks(p, requests) ==
  \E actor \in Members, q \in {x \in requests : x.op \in Operations} :
    txn' = [txn EXCEPT ![p] =
      Opened([key |-> prepared', op |-> q.op, actor |-> actor, task |-> q.task,
              other |-> q.other, shown |-> q.shown], 1)]

Send(p) ==
  /\ At(p, "idle") /\ prepared < MaxRequests
  /\ prepared' = prepared + 1
  /\ \/ Asks(p, CreateRequests) \/ Asks(p, UpdateRequests) \/ Asks(p, StatusRequests)
     \/ Asks(p, BlockRequests) \/ Asks(p, LinkRequests) \/ Asks(p, AnswerRequests)
     \/ Asks(p, FollowRequests) \/ Asks(p, MoveRequests) \/ Asks(p, OwnRequests)
     \/ Asks(p, CompleteRequests) \/ Asks(p, ReopenRequests) \/ Asks(p, DestructionRequests)
  /\ UNCHANGED <<rows, recorded, effects>>

Resend(p) ==
  /\ At(p, "idle") /\ Request(p) # NoRequest
  /\ txn' = [txn EXCEPT ![p] = Opened(Request(p), txn[p].tries + 1)]
  /\ UNCHANGED <<rows, recorded, prepared, effects>>

Lock(p) ==
  /\ txn[p].todo # <<>>
  /\ ~\E q \in Clients : WaitsFor(p, q)
  /\ txn' = [txn EXCEPT ![p].todo = Tail(@), ![p].held = @ \cup {Head(txn[p].todo)}]
  /\ UNCHANGED <<rows, recorded, prepared, effects>>

(* PostgreSQL aborts one of those that wait for each other. *)
Deadlock(p) ==
  /\ Deadlocked(p)
  /\ txn' = [txn EXCEPT ![p] = Ended(p)]
  /\ UNCHANGED <<rows, recorded, prepared, effects>>

(* A request that was answered is answered again and does nothing. *)
Prepare(p) ==
  /\ At(p, "opening")
  /\ LET r == Request(p) IN
     txn' = [txn EXCEPT ![p] =
       IF Prepared(r) /\ ~(r.op \in Recording /\ r.key \in recorded)
         THEN [@ EXCEPT !.stage = "working", !.todo = Working(r), !.kept = Kept(r)]
         ELSE Ended(p)]
  /\ UNCHANGED <<rows, recorded, prepared, effects>>

Decide(p) ==
  /\ At(p, "working")
  /\ LET r == Request(p) IN
     /\ Allowed(r, txn[p].kept)
     /\ txn' = [txn EXCEPT ![p].stage = "closing", ![p].todo = Closing(r),
                           ![p].kept = Decided(r, @)]
  /\ UNCHANGED <<rows, recorded, prepared, effects>>

Refuse(p) ==
  /\ At(p, "working")
  /\ ~Allowed(Request(p), txn[p].kept) \/ Denied(Request(p))
  /\ ~Outdated(Request(p))
  /\ txn' = [txn EXCEPT ![p] = Ended(p)]
  /\ UNCHANGED <<rows, recorded, prepared, effects>>

Rollback(p) ==
  /\ At(p, "closing")
  /\ Broken(Request(p), txn[p].kept)
  /\ txn' = [txn EXCEPT ![p] = Ended(p)]
  /\ UNCHANGED <<rows, recorded, prepared, effects>>

(* A refused answer that leaves a mark on the dependency change request. *)
Mark(p, status) ==
  /\ asks' = [asks EXCEPT ![Request(p).other].status = status]
  /\ txn' = [txn EXCEPT ![p] = Ended(p)]
  /\ UNCHANGED <<tasks, edges, disabled, graph, follows, blockers, recorded, prepared, effects>>

Expire(p) ==
  /\ At(p, "opening") /\ Request(p).op \in Answers
  /\ asks[Request(p).other].status = "pending"
  /\ Mark(p, "expired")

Outdate(p) ==
  /\ At(p, "working")
  /\ Outdated(Request(p))
  /\ Mark(p, "stale")

-----------------------------------------------------------------------------
(* The writes, one action per kind of operation.                           *)

Writes(p, ops) ==
  /\ At(p, "closing") /\ Request(p).op \in ops
  /\ ~Broken(Request(p), txn[p].kept)

Finish(p) ==
  LET r == Request(p)
      scope == IF r.op \in Links THEN txn[p].kept.scope ELSE Root IN
  /\ txn' = [txn EXCEPT ![p] = Ended(p)]
  /\ effects' = IF r.op \in Follows THEN effects
                ELSE [effects EXCEPT ![<<r.key, scope>>] = @ + 1]
  /\ recorded' = IF r.op \in Recording THEN recorded \cup {r.key} ELSE recorded
  /\ UNCHANGED prepared

Create(p) ==
  /\ Writes(p, {"create"})
  /\ LET t == CHOOSE u \in Tasks : /\ tasks[u].life = "unborn"
                                   /\ \A v \in Tasks : tasks[v].life = "unborn" => u <= v
     IN  tasks' = [tasks EXCEPT ![t] =
           [life |-> "live", parent |-> Request(p).task, status |-> "not_started",
            owner |-> Request(p).other, version |-> 1]]
  /\ Finish(p)
  /\ UNCHANGED <<edges, disabled, graph, follows, blockers, asks>>

(* What the edits of one task share. *)
Edit(p, op) ==
  /\ Writes(p, {op})
  /\ Finish(p)
  /\ UNCHANGED <<edges, disabled, graph, follows, asks>>

NextRow(p) == [tasks EXCEPT ![Request(p).task].version = @ + 1]

Update(p) ==
  /\ Edit(p, "update")
  /\ tasks' = NextRow(p)
  /\ UNCHANGED blockers

ChangeStatus(p) ==
  /\ Edit(p, "start")
  /\ tasks' = [NextRow(p) EXCEPT ![Request(p).task].status = "in_progress"]
  /\ UNCHANGED blockers

AddBlocker(p) ==
  /\ Edit(p, "block")
  /\ tasks' = NextRow(p)
  /\ blockers' = blockers \cup {Request(p).task}

(* One blocker is resolved; the task may have another.                     *)
ResolveBlocker(p) ==
  /\ Edit(p, "unblock")
  /\ tasks' = NextRow(p)
  /\ blockers' \in {blockers, blockers \ {Request(p).task}}

ChangeEdge(op, a, b, scope) ==
  /\ edges' = IF op = "link" THEN edges \cup {<<a, b>>} ELSE edges \ {<<a, b>>}
  /\ graph' = [graph EXCEPT ![scope] = @ + 1]

ChangeDependency(p) ==
  LET r == Request(p) IN
  /\ Writes(p, Links) /\ txn[p].kept.direct
  /\ ChangeEdge(r.op, r.task, r.other, txn[p].kept.scope)
  /\ Finish(p)
  /\ UNCHANGED <<tasks, disabled, follows, blockers, asks>>

(* The owner of one of the tasks asks that of the other. *)
AskForDependency(p) ==
  LET r == Request(p)  scope == txn[p].kept.scope
      owners == <<EffectiveOwner(r.task), EffectiveOwner(r.other)>> IN
  /\ Writes(p, Links) /\ ~txn[p].kept.direct
  /\ asks' = Append(asks,
       [op |-> r.op, pred |-> r.task, succ |-> r.other, scope |-> scope,
        graph |-> graph[scope], owners |-> owners,
        acceptor |-> IF owners[1] = r.actor THEN owners[2] ELSE owners[1],
        status |-> "pending"])
  /\ txn' = [txn EXCEPT ![p] = Ended(p)]
  /\ UNCHANGED <<tasks, edges, disabled, graph, follows, blockers, recorded, prepared, effects>>

AcceptRequest(p) ==
  LET a == asks[Request(p).other] IN
  /\ Writes(p, {"accept"})
  /\ ChangeEdge(a.op, a.pred, a.succ, a.scope)
  /\ asks' = [asks EXCEPT ![Request(p).other].status = "accepted"]
  /\ Finish(p)
  /\ UNCHANGED <<tasks, disabled, follows, blockers>>

RejectRequest(p) ==
  /\ Writes(p, {"reject"})
  /\ asks' = [asks EXCEPT ![Request(p).other].status = "rejected"]
  /\ Finish(p)
  /\ UNCHANGED <<tasks, edges, disabled, graph, follows, blockers>>

Follow(p) ==
  LET r == Request(p) IN
  /\ Writes(p, Follows)
  /\ follows' = IF r.op = "follow" THEN follows \cup {<<r.task, r.other>>}
                ELSE follows \ {<<r.task, r.other>>}
  /\ Finish(p)
  /\ UNCHANGED <<tasks, edges, disabled, graph, blockers, asks>>

Move(p) ==
  LET r == Request(p) IN
  /\ Writes(p, {"move"})
  /\ tasks' = [tasks EXCEPT ![r.task].parent = r.other, ![r.task].version = @ + 1]
  /\ graph' = [graph EXCEPT ![tasks[r.task].parent] = @ + 1, ![r.other] = @ + 1]
  /\ Finish(p)
  /\ UNCHANGED <<edges, disabled, follows, blockers, asks>>

Complete(p) ==
  LET r == Request(p) IN
  /\ Writes(p, {"complete"})
  /\ tasks' = [tasks EXCEPT ![r.task].status = "done", ![r.task].owner = txn[p].kept,
                            ![r.task].version = @ + 1]
  /\ Finish(p)
  /\ UNCHANGED <<edges, disabled, graph, follows, blockers, asks>>

Reopen(p) ==
  LET reopened == CompletedClosure(Request(p).task) IN
  /\ Writes(p, {"reopen"})
  /\ tasks' = [t \in Tasks |-> IF t \in reopened
       THEN [tasks[t] EXCEPT !.status = "in_progress", !.version = @ + 1] ELSE tasks[t]]
  /\ Finish(p)
  /\ UNCHANGED <<edges, disabled, graph, follows, blockers, asks>>

ChangeOwner(p) ==
  LET r == Request(p)  affected == Inheritors(r.task) IN
  /\ Writes(p, {"own"})
  /\ tasks' = [t \in Tasks |-> IF t \in affected
       THEN [tasks[t] EXCEPT !.owner = IF t = r.task THEN r.other ELSE @, !.version = @ + 1]
       ELSE tasks[t]]
  /\ Finish(p)
  /\ UNCHANGED <<edges, disabled, graph, follows, blockers, asks>>

(* The versions written are those read before the locks. *)
Archive(p) ==
  LET kept == txn[p].kept  S == DOMAIN kept  off == Incident(S) IN
  /\ Writes(p, {"archive"})
  /\ tasks' = [t \in Tasks |-> IF t \in S
       THEN [tasks[t] EXCEPT !.life = "archived", !.version = kept[t] + 1] ELSE tasks[t]]
  /\ edges' = edges \ off
  /\ disabled' = disabled \cup off
  /\ graph' = [s \in DOMAIN graph |-> graph[s]
       + Cardinality({e \in off : tasks[e[1]].parent = s})
       + Cardinality({t \in S : Live(t) /\ tasks[t].parent = s})]
  /\ Finish(p)
  /\ UNCHANGED <<follows, blockers, asks>>

Delete(p) ==
  LET S == txn[p].kept  t == Request(p).task  s == tasks[t].parent IN
  /\ Writes(p, {"delete"})
  /\ tasks' = [u \in Tasks |-> IF u \in S
       THEN [life |-> "deleted", parent |-> Root, status |-> "not_started",
             owner |-> Inherit, version |-> 0]
       ELSE tasks[u]]
  /\ edges' = edges \ Incident(S)
  /\ graph' = [u \in DOMAIN graph |->
       IF u = s THEN graph[s] + Cardinality(Incident({t})) + 1
       ELSE IF u \in S THEN 0 ELSE graph[u]]
  /\ follows' = {f \in follows : f[1] \notin S /\ f[2] \notin S}
  /\ blockers' = blockers \ S
  /\ asks' = [q \in DOMAIN asks |->
       IF {asks[q].pred, asks[q].succ} \cap S = {} THEN asks[q]
       ELSE [asks[q] EXCEPT !.status = "gone"]]
  /\ Finish(p)
  /\ UNCHANGED disabled

(* The transactions of the service's methods.                              *)
EditTasks(p)          == Create(p) \/ Update(p) \/ ChangeStatus(p)
ChangeDependencies(p) ==
  ChangeDependency(p) \/ AskForDependency(p) \/ AcceptRequest(p) \/ RejectRequest(p)
FollowAndBlock(p)     == Follow(p) \/ AddBlocker(p) \/ ResolveBlocker(p)
ChangeLifecycle(p)    == Complete(p) \/ Reopen(p) \/ ChangeOwner(p)
ChangeTree(p)         == Move(p) \/ Archive(p) \/ Delete(p)

Step(p) ==
  \/ Lock(p) \/ Deadlock(p)
  \/ Prepare(p) \/ Decide(p) \/ Refuse(p) \/ Rollback(p) \/ Expire(p) \/ Outdate(p)
  \/ EditTasks(p) \/ ChangeDependencies(p) \/ FollowAndBlock(p)
  \/ ChangeLifecycle(p) \/ ChangeTree(p)

Next == \E p \in Clients : Send(p) \/ Resend(p) \/ Step(p)

Spec == Init /\ [][Next]_vars

-----------------------------------------------------------------------------
(* Properties.                                                             *)

TypeOK ==
  /\ tasks \in [Tasks -> Row]
  /\ edges \subseteq Tasks \X Tasks /\ disabled \subseteq Tasks \X Tasks
  /\ follows \subseteq Tasks \X Tasks /\ blockers \subseteq Tasks
  /\ graph \in [Tasks \cup {Root} -> Nat]
  /\ recorded \subseteq 1..prepared /\ prepared \in 0..MaxRequests
  /\ \A t \in Existing : tasks[t].parent = Root \/ Exists(tasks[t].parent)
  /\ \A p \in Clients : txn[p].stage = "idle" => txn[p].held = {}

(* FR-010, FR-014: whatever links, moves, archives and deletes cross each  *)
(* other, the enabled dependencies connect live siblings and no cycle      *)
(* arises.  Nothing in a row says so: it takes the scope locks and the     *)
(* deadlocks between an archive and a link of the tasks it archives. *)
DependenciesAreSound == \A s \in DOMAIN graph : SoundEdges(ScopeEdges(s))

(* FR-029: a request takes effect once, however often it is sent.          *)
(* (create, complete, reopen and own are recorded; the others rely on the  *)
(* version or graph version they were prepared with.  A graph version is   *)
(* one of any scope: a copy that comes when both tasks have moved to       *)
(* another of the same version is taken for a request made there.  A       *)
(* follow carries neither and may be applied again after it was undone;    *)
(* asking for a change of dependencies again makes a second request.) *)
AppliedOnce == \A e \in DOMAIN effects : effects[e] <= 1

(* FR-017: a completed task has no live child that is not completed, and   *)
(* no live predecessor that is not. *)
CompletionHolds ==
  \A t \in Tasks : Live(t) /\ Done(t) =>
    /\ \A c \in Children(t) : Live(c) => Done(c)
    /\ Waiting(t) = {}

(* FR-019: the tree stays one, and no task becomes its own ancestor.  Each  *)
(* moveTask sees to it, and a trigger on tasks; two that lock nothing in    *)
(* common do not see each other. *)
TreeIsForest == ~Cyclic(ParentOf)

(* Optimistic locking rests on this: whoever changes a task leaves it with *)
(* a version nobody has seen, so a request prepared before is refused.     *)
(* archiveTask writes versions it read before it locked the tasks; the     *)
(* lock on the project holds the others off. *)
VersionsAdvance ==
  [][\A t \in Existing :
       tasks'[t] # tasks[t] => \/ tasks'[t].version > tasks[t].version
                              \/ tasks'[t].life = "deleted"]_vars

=============================================================================
