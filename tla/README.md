# NGAPD: a TLA+ verification project

NGAPD is a project and task manager whose tasks own *workspaces*: trees of
files that one device at a time may write, that are published as numbered
versions on a server, and that every member may materialize on a machine of
their own. This directory models the parts of it whose correctness depends on
the order of events, checks them with TLC, and proves the central facts with
TLAPS. `PROJECT.json` is the machine-readable index: which definition models
which lines, which run checks what, which hazards are covered.

    tlc  -workers 2 -config WorkspaceLeases.cfg MCWorkspaceServer.tla
    tlapm WorkspaceServerProofs.tla

## 1. Inventory

| Part | State | Operations | What is hard |
|---|---|---|---|
| **A. Workspace server** `packages/database/src/workspace-repository.ts`, `apps/api/src/modules/workspaces` | `workspaces` row (lifecycle, work cycle, sync version), leases, versions, idempotency records, objects | acquire, takeover, renew, release, upload, commit, resolve conflict | requests served long after they arrived, expiry, lost answers and retries, uploads in several steps |
| **B. Materialization** `packages/workspace-core/src/materialization.ts`, `apps/workspace-cli/src/adapters/{filesystem,local-state}.ts` | files, recovery directory, journal, `state.json`, lock file | materialize, recover | crash at any step, recovery interrupted, the user editing meanwhile |
| **C. Client runtime** `apps/workspace-cli/src/workspace-runtime.ts`, `workspace-core/src/{sync,state-machine,diff}.ts` | local lease, token slot, revision of `state.json`, root registry | connect, lease commands, sync, use_local, use_server, logout | several CLI processes, compare-and-swap on the revision, lost answers |
| **D. Task lifecycle** `task-lifecycle-repository.ts`, `domain/src/{task-lifecycle,workspace-lifecycle}.ts` | task status and version, completion snapshots | complete, reopen (with cascade), change owner | locks on several rows, write skew between parent and child |
| **E. Task graph and tree** `task-repository.ts`, `apps/api/src/modules/tasks`, `domain/src/task-*.ts` | parents, dependencies, follows, blockers, inherited owners, graph versions | create, update, move, link, follow, block, archive, delete, requests for dependency changes | cycles under concurrency, lock order, effective owner of a subtree |
| **F. Projects and memberships** `project-membership-repository.ts`, `project-role-repository.ts`, `authorization-audit-service.ts` | project lifecycle, owner, members, join and transfer requests, administrator modes, roles | join, approve, remove, promote, offer and accept ownership, archive, open and close the mode | withdrawal of rights while requests are under way, answers lost |
| **G. Outbox, worker, events** `outbox-repository.ts`, `task-projection-repository.ts`, `apps/worker`, `modules/events`, `web/src/m1/use-resource-events.ts` | outbox rows, projections, notifications, feed and cursors, the page's stream | dispatch, put off, rebuild, read, resume a stream | order of cursors and commits, retries, crashes with the only job, rebuild against dispatch |
| **H. Identity and pairing** `identity-repository.ts`, `domain/src/{pairing,admin-mode}.ts` | pairing requests, devices, credentials, access tokens; the CLI's credential store | create, poll, decide, consume, issue a token, revoke, log out | expiry between two calls, revocation while requests are under way, guesses of the secret |
| **I. Object store** `packages/object-store` | files by hash | put, has, read verified | crash between rename and row |
| **J. Comments** `task-comment-repository.ts`, the comment page and its `IntentKeyManager` | comments, idempotency records, a page's intents | create, edit, delete, hide | repeated and late calls against a task that is being edited or completed |
| **K. The rest**: notification lists, queries, web, CLI presentation, contracts, migrations | | | little or no protocol |

How they interact: C calls A over HTTP and B in process; D, E, F and H change
in their own transactions what A reads under its locks (owner, lifecycle,
project, device) and revoke A's leases; F takes its decisions on the owners of
the tasks of D and E, and these ask F for memberships and administrator modes;
J locks the task of D; A and D-F append to the outbox, which G projects to event
streams; A's uploads go through I.

What makes each correct:

- A: one writer; a writer that was superseded is fenced; answered commits stand
  and happen once; published versions are readable; a completed cycle is final.
- B: the recorded state never claims more than the files hold; an interruption
  is completed or undone entirely; nothing the user wrote is lost.
- C: the base the device believes in is the server's; no sync publishes over a
  version the directory never held; no command keeps the lock.
- D, E: no done parent with an unfinished child; no cycle, neither of
  dependencies nor of parents; a request takes effect once.
- F: a project keeps an active owner; nobody keeps a mode, a lease or an open
  task beyond the standing it rests on.
- G: every event is projected once, past failures; nobody is notified twice; over
  one EventSource a page is given no event twice; it shows every change in the
  end, unless its EventSource has given up.
- H: one device per approved pairing; nothing of a revoked device is valid.
- J: one comment per intent; completed tasks keep theirs; deleting and hiding
  are final.

The hazards, each at its line, are in `PROJECT.json`.

## 2. Modules

| Module | What it is |
|---|---|
| `WorkspaceHistory` | what a workspace promises: a line of versions extended by one writer at a time, closed and reopened |
| `WorkspaceServer` | A, with the operations of D, E, F, H and I that touch one task workspace; refines `WorkspaceHistory` |
| `WorkspaceServerProofs` | its theorems, with the refinement |
| `Materialization` | B, with what C's `sync` and `use_local` do to the same state |
| `MaterializationProofs` | its theorems |
| `ClientRuntime` | C: CLI processes of one device on one directory, the server and other devices |
| `ClientRuntimeProofs` | its theorems |
| `TaskTree` | D and E: the tasks of a project, transaction by transaction and lock by lock |
| `TaskTreeProofs` | its theorems |
| `Governance` | F, with the owners of tasks and the leases that depend on it |
| `GovernanceProofs` | its theorems |
| `EventDelivery` | what the feed promises: a committed event waits, is published once, and is given to a reader once at most and in order, until the reader starts over |
| `EventFeed` | G: outbox, worker processes, feed, one browser; refines `EventDelivery` |
| `EventFeedProofs` | its theorems, with the refinement |
| `Identity` | H: pairing, devices, credentials, tokens, CLI processes and web users |
| `IdentityProofs` | its theorems |
| `Comments` | J: pages that send and repeat calls, one task and its comments |
| `CommentsProofs` | its theorems |
| `MC...` | the instances of each |

Two abstractions are shared. A handler that locks every row it decides on is one
action; where it reads rows it does not lock, or several awaits, it is several.
And a fact is modelled once in detail and reduced elsewhere to what it means to
the other part: a revocation is a protocol in `Identity` and a date in
`WorkspaceServer`; a materialization is a protocol in `Materialization` and one
step in `ClientRuntime`; a task is a row with locks in `TaskTree` and an owner
with a state in `Governance`.

### WorkspaceServer

One workspace of a task below the root of its tree. A transaction of the code
takes `FOR UPDATE` locks on project, membership and workspace row
(`withLockedWorkspace`; the lifecycle operations lock the workspace row too), so
it is one action. What the locks do not cover is in the action's parameter `t`:
the time the request arrived, when the code takes `now` and resolves the access
token. `t` may be up to `MaxAge` behind `clock`. Any request a device could have
sent may be served at any step, any number of times: lost answers, duplicates
and reordering need no action of their own.

State and code: `lifecycle`, `workCycle`, `syncVersion` are columns of
`workspaces`; `versions`, `leases`, `idempotency`, `completions`, `registered`
the tables `workspace_versions`, `workspace_leases`, `idempotency_records`,
`task_completion_snapshots`, `workspace_objects`; `stored` the object store;
`uploads` the requests between their lease check and their row; `done`,
`owner`, `explicitOwner` the task; `revokedAt` the devices. `acks` and
`outlived` are history variables. A manifest is one value of `Contents`, with
its objects. Refused requests change nothing but the audit and are stuttering,
except `AcquireLease`, whose refusal still revokes expired leases.

The task operations are modelled in what they do to this workspace and to the
right to write it; their rules about other tasks are in `TaskTree`.

### Materialization

One machine. The lock file makes commands exclusive, so there is one `pc`; a
command is a sequence of small steps (back up one file, look, rename, mark the
operation applied, write the state, preserve a conflict copy, empty the
recovery directory, clear the journal), with `Crash`, `Fail` and `UserEdit`
possible between any two. A version is a function from `Paths` to contents or
`Absent`; `history` is the server. `Local` and `Remote` are the contents the
user and the server start from. `Begin(v)` takes any version, not only the
newest, because the version is read before the lock is taken. `Sync` and
`UseLocal` are atomic here and stand for the commands that move the base; their
guard "holds a lease" is left to the environment. `touched`, `before`, `edits`
are history variables.

A path that is neither in the base nor in the target is not managed and is left
alone, as in `planOperations`. Temporary files, directories and symbolic links
are not modelled.

### ClientRuntime

Processes of the CLI on one workspace directory. A command is cut at its awaits:
`at` is where a process is, `mem` what its command has read, so that whatever is
used later than it was read may be old. `state` is `state.json`, `token` the
token slot, `registered` the root registry, `credential` the device's
credential, `lock` the workspace lock, `files` the directory. `state.revision`
is used for one question only (was the state written since it was read?), which
is the set `changed`. The server is `history` with the one lease this device may
have in force; `PublishElsewhere` and `LoseLease` are the other devices and
expiry. An API call may fail before it has an effect, or have it and lose the
answer; a process may crash between any two steps; the user edits `files`.
`writeState` parses what it writes and refuses a state whose lease stands on an
older version than the state itself (`Valid`): a grant that cannot be recorded is
undone, a renewal that cannot is not recorded, a materialization rolled back.

### TaskTree

PostgreSQL runs these transactions at READ COMMITTED, so a transaction is not
one step: it opens (first lock), prepares (reads what tells it which rows to
lock), locks row by row in the handler's order, decides on what is committed
then, takes the locks its writes need (foreign keys lock what they name), and
commits. A deadlock is detected and ends one of its transactions without effect,
as does a constraint or trigger of the schema.

`tasks`, `edges`, `disabled`, `graph`, `follows`, `blockers`, `asks`, `recorded`
are the tables; `txn` is what each connection does, with the request as its
client prepared it: the versions and the affected tasks it was shown, which
`evaluateTaskImpact` and the version checks compare. `effects` counts how often
each request took effect, for a change of dependencies in each scope. All seventeen kinds of request are there; `Operations`
selects them. Title, description, labels and dates of a task are its version.
`blockers` are the tasks that have an unresolved blocker: another may be added to
one of them, and resolving one may leave another. Whether a reopen is to be
refused for the completed tasks that come after (policy `deny`) comes with the
request and is `Denied`.

`Seeds` are the tables a behaviour starts from. `SoundSeed` asks of them what a
project that grew from nothing has: parents are there, and dependencies connect
live siblings without a cycle.

### Governance

Every handler locks the project's row first and is one action. What interleaves
are the requests (`late` is one of them that is delayed or sent again, with
whether the rows it was prepared on have changed since), the administrator modes
that lapse with time or with their web session, the task requests that read the
mode in a transaction of their own (`entered`), and the task and workspace
modules, reduced to owners and leases. `mode` is per web session: `lapsed` is a
row that still says active although its time is over: `Lapse` makes it, and
`Invalidate` closes it when an evaluation of the mode refuses. `RefuseStale`
marks an offer of ownership that is no longer good.

### EventFeed

`ready` and `delayed` are the unprocessed rows of `outbox_events`, those
available and those put off, in the order in which the dispatcher would claim
them; `processed` the others. A dispatch is `TakeJob`, `Claim` (the row lock),
`Write` (derived rows and feed row, with the cursor taken from the sequence) and
`Settle` (the commit); or `RollBack` and `Postpone`, which is a transaction of
its own; then `Finish` (addJob). A worker may crash between any two. `Locked` is
derived from the workers' open transactions, so a crash or a rollback releases
the row, and the cursor it took is lost. `Project` is what `projectTaskOutboxEvent`
leaves behind: the mark, the notification (unique per recipient and occurrence)
and the outbox event announcing it. `Rebuild` is one transaction that marks and
projects every task event again, dispatched or not.

The job queue is graphile-worker's, modelled as `scheduled`: one waiting job with
the key. Its own retry of a failed job runs one more dispatch, as does a process
that starts while another is dispatching, and adds no behaviour.

`stream` is the page's EventSource: its state, the last event id it received
(`cursor`) and the batch the server is sending it. It is `connecting` until it is
answered. `Open` is an answer with a stream, after the cursor; `Refuse` is one
with anything else (401, 500, a proxy's 502), on which EventSource is `closed`
for good, and `use-resource-events.ts` does not listen for it. `Renew` is the
page that shows another project: the effect closes the source and makes a new
one, which has no last event id, so that the server starts again at cursor 0 and
`delivered`, what this EventSource has delivered, at nothing. A page may be
renewed any number of times, or never. `stale` are the resources the page is to
fetch again: all of them when a stream opens (`refreshAfterConnect`), the one an
event names when it arrives. `Refetch` returns what is committed at that moment,
or fails after its retry, and then nothing is fetched before something makes it
stale again. Authorization of the stream's rows only filters, by `Visible`.

As an `EventDelivery`, what waits is what is in the two queues, and the reader is
one EventSource over all its connections: its position is the last event id,
what it was given is `delivered`; a renewal is a reader that starts over
(`StartOver`). Claims, failures, postponements, crashes and connections are no
steps of it, and a rebuild only announces what was due. It does not promise that
a reader is given every event (AC-014, below), nor that a page is given none
again by its next EventSource, which is only fetching once more.

A notification's recipient is fixed by its source. The code may resolve the
effective owner of the task when it projects (`task-projection-repository.ts:734-779`),
so that a rebuild may find another than the dispatch did, who is then notified
too; the occurrence key names the recipient, and nobody is notified twice.

### Identity

Each method of `IdentityRepository` is one transaction on locked rows and one
action. `cli` is where each process is in `pair` or `logout`; `store` the
credential the machine keeps; `web` a user's decision or revocation that is
under way, its session already resolved. The clock is the set `overdue` of
pairings whose time is over; `late`, read when a call arrives, is the `now` it
is served with. `Mismatch` is a call without the pairing's secret, which counts
towards the limit. A command may stop anywhere, and a second one starts on
whatever it left.

### Comments

One task, its comments, and pages that await one call at a time. `intent` is the
`IntentKeyManager`: a changed payload takes a new key, a repeated one keeps its
key. `wire` are calls that have not been served; one whose answer is not awaited
any more may still arrive, and one that is sent again after it was served is
answered from its record (`ServeAgain`). A method of `TaskCommentRepository` locks the task first and is
one action. A call carries the task and comment versions of when it was made.

## 3. Runs

| Run (configuration) | Bounds | Shows |
|---|---|---|
| `workspace_leases` (`WorkspaceLeases`) | 2 devices of a user, 2 manifests, 1 key, TTL 2, delay 1, clock 2, 2 versions, 2 leases | types; one writer; the lease in force is at the head; answered commits stand; fencing; refinement of `WorkspaceHistory` |
| `workspace_lifecycle` (`WorkspaceLifecycle`) | 2 users with a device each, 1 manifest to upload, 2 cycles, 2 versions, 2 leases | snapshots final; versions readable; owner changes fence |
| `materialization` (`Materialization`) | 2 paths, 2 contents, 2 versions, 1 edit, 2 faults | no backup without a journal; earlier edits kept; interrupted rollbacks restore; clean means materialized; journals are resolved |
| `client_runtime` (`ClientRuntime`) | 2 processes, 2 manifests, 2 versions, 2 leases | the base is a version of the server; a sync builds on the head; the base never goes back, except by connect; the lock is given back |
| `task_tree` (`TaskTree`) | 4 tasks, 2 members, 2 clients, 2 requests of any of 17 kinds, each sent at most twice, from three trees | types; dependencies sound; nothing applied twice; versions advance |
| `task_completion` (`TaskCompletion`) | 3 tasks, 2 members, 2 clients, 3 requests of 7 kinds | a completed task has no open child or predecessor, while nothing is reopened |
| `task_skew` (violation, `TaskSkew`) | 3 tasks, 2 requests | complete a parent against reopen a child |
| `task_cycle` (violation, `TaskCycle`) | 5 tasks, 2 moves | two moves under each other's descendants |
| `governance` (`Governance`) | 2 users with a session each, 1 task, 1 role, 1 delayed request | an active owner; memberships and joins agree; modes and leases follow standing; removed members own nothing open; requests apply once |
| `event_feed` (`EventFeed`) | 2 workers, 1 event that notifies and 1 that always fails, batches of 1, 1 fault, any number of renewals | each event once in the feed; one notification per source; the backlog drains; the page shows every change, unless its EventSource has given up; refinement of `EventDelivery` |
| `identity` (`Identity`) | 2 users, 2 processes, 2 pairings, 2 devices, 2 attempts | one device per pairing; a revoked device is silent; pairings only move on |
| `comments` (`Comments`) | 2 members, 2 comments, 1 text, 3 task versions, keys to 2, 2 calls under way, 3 intents | one comment per intent; completed comments stand; the last word stands |

Why the bounds are enough to be interesting. Two leases show every handover
(expiry, takeover, release and acquire); a third repeats the same. TTL 2 with
delay 1 lets a request arrive before the expiry and be served after it, and
after another device was granted the next lease. Two versions let a key be used
again on a later base. Two cycles let a version be published after a reopen.
In `Materialization` operations on paths are independent, so two paths show one
done and one not; two contents let the user's differ from both base and target;
two faults interrupt the recovery of an interruption. In `ClientRuntime` any
race is between two processes, and two versions let one of them be behind. In
`TaskTree` two requests are what it takes for a race, sent twice for a late
copy to meet the other's effect; the seeds are trees in which each kind of
request can succeed (a family in progress, one whose children are completed, one
with room to create), and three requests let two others finish in the middle of
one. In `Governance` two users suffice for an owner and a successor, a remover
and a removed; one late request is delayed across anything (the run delays seven of the
operations, the theorem `AtMostOnce` speaks of all). In `EventFeed` two
events and two workers are what it takes for cursors to be committed out of
order, a batch of one makes every read partial. In `Identity` two pairings and
devices let one process overtake another; two attempts let the first mismatch
pass and the second lock. In `Comments` two calls under way let a late copy meet
any other call, and three task versions let the task be completed, and changed
again.

`Bounded` in `MCGovernance` and `MCComments` is a state constraint: it cuts
behaviours that go on after a second effect of the one late request, and those
with more calls and intents than the row says.

Symmetry is used where no formula tells the permuted values apart and no
liveness is checked. Deadlock is checked but in `task_*` and `comments`, where
all requests the bounds allow may have been made, and nothing is left to do.

### Fairness

No fairness is assumed for the workspace server, tasks, governance, identity or
comments, and no liveness claimed: they only answer.

`Materialization` assumes `WF_vars(Command)`: a process that is running
takes its next step (ordinary scheduling), and while a journal is pending the
user eventually runs a command that recovers (the only assumption about the
user). Faults are bounded by `MaxFaults`; with infinitely many crashes nothing
could be promised.

`EventFeed` assumes weak fairness of each worker process (a running process goes
on, and compose restarts one that died: `restart: unless-stopped`), of time
(`Elapse`), of the stream (it delivers what it has, the server ends it after 30 s
between two batches, and EventSource tries again until it is answered, well or
badly) and of the page's fetches, which end, well or badly. It does not assume
that a connection succeeds, that an EventSource which has given up is ever
renewed, that the server polls, or that an event ever succeeds: an event in
`Poison` fails for ever; other failures, refused connections and failed fetches
among them, are bounded by `MaxFaults`. `ViewCatchesUp` therefore makes an
exception of the EventSource that stays closed.

### Violations

Two runs check a sentence of the requirements that the code does not keep:

- `task_skew`, FR-017 ("a completed ancestor must be reopened first"):
  `completeTask` locks its task and two graph scopes, `reopenTask` the project
  and the tasks it reopens. `completeTask` waits for the project row only when it
  inserts its records, after it has checked the children, and commits over a
  child that was reopened meanwhile.
- `task_cycle`, FR-019 ("the target is not in its own subtree"): `moveTask`
  locks the source scope, the target scope and the task. Two moves, each under a
  descendant of the other's task, lock nothing in common; neither they nor the
  trigger `tasks_parent_cycle_guard` see what the other has not committed.

### Known deviations

TLC or reading shows the following too; no run is kept for them. Some of them
are states of the models that no property forbids, the others lie beyond what
is modelled.

Workspaces, server:
- FR-013/FR-014: the token is checked when the request arrives, so a commit
  delayed across the revocation of its device is published.
- FR-014: `moveTask` changes the effective owner without revoking a lease. One
  move is harmless (the old holder is refused as not the owner); a move back
  brings the old lease back. `OwnerChangeFences` therefore speaks of
  `changeOwner` only, and `outlived` tells the two apart.

Materialization:
- When the base version is materialized again and interrupted, recovery finds
  version and manifest hash equal and takes it for complete, with a file still
  in the recovery directory. `CleanMeansMaterialized` looks at the moment the
  state is written, which this is not.
- A rollback unlinks the path of an operation that found no file, whatever the
  user wrote there since; `NoQuietEditLost` speaks of earlier edits.
- `use_local` publishes without recovering first; the rollback of the next
  command writes the journal's prior state over the newer one.
- The lock file: two processes may both find it stale and unlink each other's;
  a crash that leaves it empty makes every command answer STATE_BUSY.

Client:
- `connect` asks for the newest version before it reads the state, so a
  concurrent sync may be taken back to the older one (`BaseNeverGoesBack` makes
  the exception); a second concurrent first connect that fails unregisters the
  workspace of the other.
- Two processes share one token slot, so one that loses the compare-and-swap may
  delete or overwrite the other's token; `logout` leaves the tokens of
  workspaces that are not registered any more.
- While the state has a lease of an older version, `connect` to a newer version,
  and `use_server` after a commit whose answer was lost, are refused by
  `parseState` as an inconsistent lease when they write the state, and rolled
  back, until the lease is renewed or given up.
- A commit whose answer is lost is repeated with a new key and meets its own
  version as a conflict.
- A sync that only marks a conflict is reported as synchronized
  (`ReportedMeansPublished` in `ClientRuntime` states what is not so).
- A command that waits more than two seconds for the lock gives up: a long sync
  ends a `lease hold`.

Tasks and governance:
- FR-009: task operations do not look at `projects.lifecycle`, so the tasks of an
  archived project can still be changed.
- A graph version names no scope. A request to change a dependency that is sent
  again after its effect was undone and both tasks were moved to a scope that
  happens to have the version it names is applied there; `AppliedOnce` counts
  per scope.
- FR-016: `createTask` does not look at its parent's status, so a completed task
  can be given an unfinished child.
- FR-031: whether a task request comes in administrator mode is read in a
  transaction of its own and used later.
- `createTask` and others resolve the owners of all tasks of the project, done
  ones too; after a member who owns only done tasks was removed (which FR-019
  allows) nobody can create a task (`MembersCreateTasks` in `Governance` states
  what `docs/03-permission-model.md:118` promises).
- FR-027: an offer of ownership survives the removal and return of its target,
  and the project's archiving and unarchiving.
- `docs/02-domain-model.md:402`: reopening a task of a removed owner with a new
  one is not implemented.

Events:
- AC-014: with two dispatchers, which a test of the outbox runs, cursors are not
  committed in their order, and a stream that resumes after the later one never
  delivers the earlier. The page fetches everything when a stream opens, at least
  every 30 s, so `ViewCatchesUp` holds all the same.
- EventSource gives up for good on an answer that is no stream (401, 500, a 502
  while the api restarts), and the page has no listener that would make another:
  it is told of nothing more until the user goes to another project, and shows
  old data until something else makes it fetch.
- A new EventSource on a change of project has no last event id, so the server
  replays the whole feed from cursor 0, and the page fetches for each event.

Identity:
- The answer to `consume` is lost, or the process stops before it stores it: a
  live device stays that nobody holds. Two concurrent `pair` commands overwrite
  each other's credential, with the same result.
- A slow second `logout` deletes the credential of a device paired meanwhile; and
  one whose access token expires between issue and revocation forgets a device
  that stays live.
- A decision that is under way outlives the user's logout from the web.
- `transitionPairing` of the domain package is used by tests only, and allows
  other transitions than the repository.

Comments:
- `phase-001-plan.md:72` promises a stable cursor. `created_at` passes through a
  JavaScript date, which drops microseconds, so that a page of one never
  advances; and it is the start of the transaction, so that a comment that is
  committed late is skipped.
- The page's `onSuccess` empties the field, also of what was typed meanwhile.
- After a lost answer the key is kept only while the payload stays the same: a
  task version that changed in between, or going back to an earlier text, makes a
  new key, and can make a second comment. `OneCommentPerIntent` counts these as
  two intents.
- FR-024: the owner of a project whose own permission level is member cannot hide
  a comment in administrator mode.
- Commenting locks task before membership, removing a member the other way round:
  one of the two may end as a deadlock's victim.

## 4. Proofs

Eight modules prove, for every value of the constants that satisfies the ASSUMEs
of the modules they extend (so for any number of devices, users, tasks, leases,
versions and requests, and without the state constraints of the runs):

| Module | Theorem | Property |
|---|---|---|
| `WorkspaceServerProofs` | `TypeCorrectness` | `TypeOK`, with its foreign keys |
| | `SingleWriter` | `OneWriter` |
| | `LeasesStandAtHead` | `LeaseAtHead` |
| | `Fencing` | `NewestLeaseWrites` |
| | `Readable` | `VersionsReadable` |
| | `OwnerFencing` | `OwnerChangeFences` |
| | `SnapshotFinality` | `SnapshotIsFinal` |
| | `Answers` | `AnsweredCommitsStand` |
| | `Implementation` | `ImplementsHistory` |
| `MaterializationProofs` | `TypeCorrectness` | `TypeOK` |
| | `BackupsFound` | `NoOrphanBackup` |
| | `RollbackComplete` | `RollbackRestores` |
| | `EditsSurvive` | `NoQuietEditLost` |
| | `CleanIsTrue` | `CleanMeansMaterialized` |
| `ClientRuntimeProofs` | `TypeCorrectness` | `TypeOK` |
| | `LockDiscipline` | `LockIsGivenBack` |
| | `RealBase` | `BaseIsPublished` |
| | `HeadOnly` | `SyncBuildsOnHead` |
| | `ForwardOnly` | `BaseNeverGoesBack`, for every command but `connect` |
| `GovernanceProofs` | `TypeCorrectness` | `TypeOK` |
| | `ActiveOwner` | `OwnerIsActive` |
| | `TablesAgree` | `MembershipsAgree` |
| | `ModesStandOnGrounds` | `ModesFollowStanding` |
| | `LeasesStandOnGrounds` | `LeasesFollowStanding` |
| | `NothingLeftBehind` | `RemovedOwnsNothingOpen` |
| | `AtMostOnce` | `OncePerRequest` |
| `TaskTreeProofs` | `TypeCorrect` | `TypeOK` |
| | `DependenciesStaySound` | `DependenciesAreSound` |
| | `AppliesOnce` | `AppliedOnce` |
| | `VersionsGrow` | `VersionsAdvance` |
| | `CompletionStays` | `CompletionHolds`, while nothing is created or reopened |
| `EventFeedProofs` | `TypeCorrectness` | `TypeOK` |
| | `DeliveryImplemented` | `ImplementsDelivery`, over the connections of one EventSource |
| | `FeedFollowsOutbox` | `FeedIsProcessed` |
| | `AtMostOneNotification` | `NotifiedOnce` |
| `IdentityProofs` | `TypeCorrectness` | `TypeOK` |
| | `OneDevicePerPairing` | `OneDeviceEach` |
| | `RevocationSilences` | `RevokedIsSilent` |
| | `PairingsMoveOn` | `PairingOnlyMovesOn` |
| `CommentsProofs` | `OnePerIntent` | `OneCommentPerIntent` |
| | `CompletedKeep` | `CompletedCommentsStand` |
| | `LastWords` | `LastWordStands` |

**Workspace server.** The inductive invariant is
`WriterInv == TypeOK /\ OneWriter /\ LeaseAtHead`.
`OneWriter` alone is not inductive: `ExpireLeases` revokes only leases of the
current work cycle, so `AcquireLease`, which looks for any lease in force, needs
`LeaseAtHead` to know that it overlooks none; and a commit refreshes the base of
one lease, which preserves `LeaseAtHead` only because there is no other.
The lemmas on sequences of leases (`RevokeAllProperties`, `ExpireLeasesProperties`,
`UpdateLeaseProperties`, `AppendLeaseProperties`) are stated once through
`Outgrown`: no step forgets a lease, changes its device or cycle, or brings it
back into force. `PublishingStep` isolates what a step that publishes does;
`Fencing` follows from it and the invariant.

The theorems on versions build on `WriterInv`. `ChangedAreRevoked` (what
`changeOwner` found in force is revoked) is kept because `Outgrown` brings no
lease back. `SnapshotIsFinal` is not inductive: `CyclesAdvance` adds that no
version is of a later cycle than the workspace, and that a workspace that is
being written has no snapshot of its cycle yet. `AnsweredCommitsStand` speaks of
answers; `AnswersInv` says that each was given from a record, and the same of the
records. For the refinement, `HistoryStep` maps each handler to a step of
`WorkspaceHistory` or to none: `LeaseAtHead` is what makes closing, reopening
and unarchiving map, since nobody holds a lease while the workspace is closed,
and `OneWriter` is what makes `Writer` the device that commits.

**Materialization.** The properties speak of the files, but what may happen to
them follows from what the pending journal means. `Recorded` (state and journal
name versions of the server, with their content), `Swept` (backups exist only
under a pending journal, and are gone before it is cleared) and `PlanMeans` (the
plan names every path on which its version differs from what was there, and
what it replaces without a conflict copy is the base version's) say what the
records tell of the files. `LeftAlone`, `Underway` and `InHand` say how far a
command is: what has not been reached is as it was, what is marked applied is
the new version's, and of the operation in hand which of its steps are done.
`CanUndo` is the heart: while a journal is pending and its version not yet
recorded as the state, every path the user has not touched can be restored, from
the recovery directory or because it was never changed; `Undoing` is the same of
a rollback that is half done, and is why a crash in the middle of a recovery is
no different from one in the middle of a materialization. `EditsHeld` says at
every point where an edit is that was made before the command. The assumption
`NoJournalAssumption` (the value for "no journal" is not one of the journals) is
true of any record.

**Workspace client runtime.** Each command uses what it read before it waited,
so the invariant says of each `at` what may still be relied upon:
`VersionsKnown` (a process was told only versions of the server, which never
loses one; only `connect` waits in between), `ReadingIsFresh` (a `use_server`
whose reading of the state is still the newest does not go back),
`CommitNamesBase` (a commit that is under way names the base it was built on,
and the server compares it with the head), `AdoptsPublished` (what is written to
the state is what the server answered). `LockIsGivenBack` is needed for all of
them: the state changes only under the lock.

**Governance.** The invariant is `Grounds /\ LateOK /\ Once`. `Grounds` are the
types and the five properties of standing, which need each other: a removal is
safe for leases and open tasks only because modes and join rows agree with the
membership, an ownership transfer only because an offer is the owner's. `LateOK`
is the type of the late request; `Once` says that a request that took effect
once has left its record, or has changed a row it was prepared on.

**Task tree.** A transaction decides on what it read under some locks and writes
under others, so the invariant has a part for the tables and one for each client,
and the proof goes by rely and guarantee. For the tables: `Stored` and `Rooted`
(types; an existing task's parent exists), `DependenciesAreSound`, `AppliedOnce`,
`Keys` (no two clients carry one request) and `Compatible` (no two transactions
hold locks that conflict). For a client, `ClientInv`:

- `Claimed`: which locks it holds or is about to take at its stage: the scope of
  the edge it inserts, both scopes and the task of a move, the project of whoever
  writes a task;
- `Standing`: what it keeps of its reads is there still, because whoever could
  change it needs the project's row;
- `StillSound`: the edge it found sound is so until it is inserted, unless one of
  its tasks leaves the scope, and then the insert finds no live sibling; the task
  it found free of dependencies gets none before it moves. This is what
  `DependenciesAreSound` lacks to be inductive;
- `SpentOnce` and `Fresh`: a request that took effect has left its record or was
  prepared on a version that is gone, and one that is about to write has not
  written yet. This is what `AppliedOnce` lacks.

`Guarantee` is what every step grants the others: versions, scopes and requests
only advance; tasks change only under a lock on the project; a scope gets an edge
only under the scope's lock, a member only under the scope's or the task's.
`OthersRely` derives `ClientInv` of all other clients from it, once for all
actions, and `Assembled` puts the pieces together; for each action there remain
its own client's part and the tables. `VersionsGrow` follows step by step.

`CompletionStays` adds to this invariant what a completion relies on, and assumes
that `Operations` has neither `create` nor `reopen`: `createTask` does not look
at its parent's status, and `reopenTask` crosses a completion, which `task_skew`
shows. Of the other fifteen kinds each is covered, however they cross, if
completion holds in the tables at first. `TaskHeld` says who has the row of its
task, `ScopesHeld` that a completion has the scope of its task and that of its
children, and `Settled` that what a transaction decided on (its children and
predecessors are completed; the task it starts, moves under or makes wait is
not) is so until it writes. `Respects` is what a step of one client grants the
others: a live task is neither new nor reopened; who moves one has its row and
the scope it goes to, who completes one has its row and both scopes, who adds a
dependency has the scope of what it connects. With `Compatible`, a completion and
a move or link into its task cannot both hold the scope, nor a completion and an
edit both the row: `OthersSettled`. The parts were checked by TLC on the instance
of `task_completion`, with `start` and `delete` added, before they were proved.

The assumptions are those of the module: tasks are finitely many, the special
values are no tasks or members, the seeds are sound. `Reach` and `EffectiveOwner`
are recursive functions; the library's induction takes an operator as its
parameter, so `AllNaturals` states induction over a set of numbers instead, and
`Iteration` that a function can be iterated. From them come `ReachBounds` (what is
reached contains the start and stays in every closed set), `ReachGrows` (more
edges reach more, so that removing a dependency makes no cycle) and `OwnerType`,
which is all the proofs need of them.

**Event feed.** Neither property is inductive, since both rest on the row lock.
`Queues` says that the two queues are sequences without repetition of events
that are not processed; `Claims`, that an event a worker has claimed stays
claimed by that worker alone until it settles or rolls back, and that what a
worker is to postpone is still there; `Numbers`, that a cursor once drawn is of
one transaction or of one committed row, never of two; `Rows`, that every row of
the feed is of a processed event. `FeedIsProcessed` and `NotifiedOnce` follow for
any number of workers, faults and rebuilds.

For the refinement the lemma of each action that changes the queues says what
becomes of `Pending`, and `ProjectEffect` which notifications a projection
announces: exactly those that were due, which `NotifiedOnce` makes independent of
what was projected before. The reader needs `Following`: what is on its way lies
after the cursor in ascending order (`ReadProperties`), and what was given before
has no row after the cursor, so that no later batch or reconnection of the same
EventSource gives it again; a renewal forgets both, which `RenewFollows` maps to
a reader that starts over. `Bounded` completes the types.

**Identity.** The invariant is `Server /\ Clients`: the tables with the two
properties, and what every process and browser may remember of them: the
pairing a process polls exists, the device whose token it was given is the one
its pairing made, a decision that is under way names a pairing that was
created. `PairingOnlyMovesOn` follows from it step by step.

**Comments.** The invariant is types, `Bodies`, `KeysRecorded` and
`OneCommentPerIntent`. The last is inductive only with `KeysRecorded`: a key is
recorded in the step that makes its comment, so a late copy finds it whatever has
become of the comment. `Bodies` (a deleted comment has no body, any other has
one, none is both) is what the checks of the table say, and what `LastWordStands`
needs of a comment nobody touches. `ServeOutcome` reduces every call to making
one comment or changing one that is shown; both action properties follow.

Only model-checked: of `TaskTree`, parents in general, whose cycles `task_cycle`
finds; and liveness (`JournalIsResolved`, `BacklogDrains`, `ViewCatchesUp`), as
the proof system does not handle fairness and ENABLED. So does the exact value of a recursive function: that `Reach` misses
nothing within `Cardinality(Tasks)` rounds, and that `EffectiveOwner` is the
nearest owner above, is not proved, and no theorem rests on it. Nor is it proved
that a finite set of rows can be put in order: `ReadAuthorized` is the set of
answers that do so, which the runs show to have one member.

## 5. Plan

Every safety property of a passing run is a theorem as well; `TreeIsForest`,
which `task_cycle` violates, is not one, and `CompletionHolds` is one without
`create` and `reopen`. What remains open:
`CompletionHolds` with `create`, which needs the code to check the parent first;
the hazards without a property in `PROJECT.json`, above all the evaluation of
readiness by two dispatchers; an abstract specification of a materialized
directory. Runs stay within a few minutes each, and modules to be proved about
use no RECURSIVE operators.

## 6. Not modelled

Lists of notifications and comments, preferences, queries, due reminders, the
rest of the web client, CLI presentation and MCP diagnostics have no protocol
worth a model. Contracts, migrations and path policy are data validation; the
constraints and triggers of the schema that a handler relies on are part of the
handler's action. Registration, profiles and web sessions are rows of their own
with no race worth the state; nothing deactivates an account. Completion
readiness is shown and announced but never decided upon (`completeTask`
evaluates afresh); two dispatchers may leave an older evaluation in place, which
is listed as a hazard without a property. Rate limits and audit rows have no
influence on the state modelled. The durability of a rename without a directory
fsync, the temporary files a crash leaves behind, and the race for a stale lock
file are below the steps of `Materialization`. Attachments of comments and
content of files beyond their identity are data.
