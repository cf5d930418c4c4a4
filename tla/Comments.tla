------------------------------ MODULE Comments ------------------------------
(***************************************************************************)
(* The comments of one task: pages that send and repeat requests, and the  *)
(* server that serves them, while the task is edited, completed, reopened  *)
(* and archived and members lose their standing.                           *)
(*                                                                         *)
(* A method of TaskCommentRepository is one transaction that first locks   *)
(* the task's row, so one step.  A new call carries the current versions:  *)
(* one made on versions that are old already is refused and changes        *)
(* nothing.  A page awaits one call at a time; a call whose answer it does *)
(* not get may still be served, and be sent again on its old versions.     *)
(* Attachments, who the owner is, and deleting the task are left out.      *)
(***************************************************************************)
EXTENDS Naturals, FiniteSets

CONSTANTS
  Members,
  PagesOfMember,    \* pages a member has open
  Comments,         \* ids of task_comments
  Texts,
  None,
  MaxTaskVersion,   \* bounds the changes of the task
  MaxKey            \* bounds the idempotency keys of a page and operation

ASSUME CommentsAssumption ==
  /\ PagesOfMember \in Nat \ {0}
  /\ MaxTaskVersion \in Nat \ {0}
  /\ MaxKey \in Nat \ {0}
  /\ None \notin Comments \cup Texts

Pages      == Members \X (1..PagesOfMember)
Operations == {"create", "update", "delete", "hide"}

VARIABLES
  task,      \* version, done and archived of the task
  standing,  \* of each member: "admin", "member" or "removed"
  comment,   \* task_comments; None: no row.  key: the key that created it
  records,   \* keys in task_operation_idempotency; a key stands for one
             \* payload (KeyFor), so none is refused for a different one
  intent,    \* the IntentKeyManager of each page and operation
  waiting,   \* the call a page awaits
  wire       \* calls that have not been served

server == <<task, standing, comment, records>>
vars   == <<server, intent, waiting, wire>>

-----------------------------------------------------------------------------
\* The page

\* A changed payload is a new intent; the same one keeps its key.
KeyFor(i, payload) ==
  [n |-> IF i.payload \notin {None, payload} THEN i.n + 1 ELSE i.n, payload |-> payload]

Complete(i) == [n |-> i.n + 1, payload |-> None]

\* The admin mode of a request is read when it arrives, before it is served.
Send(g, payload) ==
  LET i == KeyFor(intent[g][payload.op], payload)
      r == [page |-> g, key |-> i.n, payload |-> payload,
            adminMode |-> standing[g[1]] = "admin"]
  IN  /\ waiting[g] = None
      /\ i.n <= MaxKey
      /\ intent' = [intent EXCEPT ![g][payload.op] = i]
      /\ waiting' = [waiting EXCEPT ![g] = r]
      /\ wire' = wire \cup {r}
      /\ UNCHANGED server

\* What a listing offers the member (mapCommentResource).  It may be older than
\* the task's last change, so it may offer to edit comments of a done task.
Shown(k)       == comment[k] /= None /\ ~comment[k].deleted /\ ~comment[k].hidden
MayEdit(g, k)  == Shown(k) /\ comment[k].author = g[1]

SubmitComment(g) ==
  \E t \in Texts :
    /\ ~task.archived
    /\ Send(g, [op |-> "create", comment |-> None, text |-> t,
                task |-> task.version, version |-> 0])

Save(g) ==
  \E k \in Comments, t \in Texts :
    /\ MayEdit(g, k)
    /\ Send(g, [op |-> "update", comment |-> k, text |-> t,
                task |-> task.version, version |-> comment[k].version])

Remove(g) ==
  \E k \in Comments :
    /\ MayEdit(g, k)
    /\ Send(g, [op |-> "delete", comment |-> k, text |-> None,
                task |-> task.version, version |-> comment[k].version])

HideWithReason(g) ==
  \E k \in Comments :
    /\ Shown(k) /\ standing[g[1]] = "admin"
    /\ Send(g, [op |-> "hide", comment |-> k, text |-> None,
                task |-> 0, version |-> comment[k].version])

\* The same call once more, on whatever versions it was made.
Repeat(g) ==
  \E o \in Operations :
    /\ intent[g][o].payload /= None
    /\ Send(g, intent[g][o].payload)

\* The answer does not come: the page may try again.
GiveUp(g) ==
  /\ waiting[g] /= None
  /\ waiting' = [waiting EXCEPT ![g] = None]
  /\ UNCHANGED <<server, intent, wire>>

Lose(r) ==
  /\ wire' = wire \ {r}
  /\ UNCHANGED <<server, intent, waiting>>

-----------------------------------------------------------------------------
\* The server

Author(r)  == r.page[1]
KeyOf(r)   == <<r.page, r.payload.op, r.key>>

\* Mutant of Replays: trusts the task's version to refuse a second creation.
ReplaysOfChanges(r) == r.payload.op /= "create" /\ KeyOf(r) \in records

Replays(r) == KeyOf(r) \in records

CurrentTask(r)    == r.payload.task = task.version
CurrentComment(r) == r.payload.version = comment[r.payload.comment].version

MayCreate(r) == CurrentTask(r) /\ ~task.archived

\* Mutant of MayChange: forgets that a completed task keeps its comments.
MayChangeEver(r) ==
  LET k == r.payload.comment IN
  /\ CurrentTask(r) /\ CurrentComment(r)
  /\ ~task.archived /\ Shown(k) /\ comment[k].author = Author(r)

\* update and delete.
MayChange(r) ==
  LET k == r.payload.comment IN
  /\ CurrentTask(r) /\ CurrentComment(r)
  /\ ~task.archived /\ Shown(k) /\ comment[k].author = Author(r)
  /\ ~task.done

\* Neither the task's version nor its state matters to hide.
MayHide(r) ==
  /\ CurrentComment(r) /\ Shown(r.payload.comment)
  /\ r.adminMode /\ standing[Author(r)] = "admin"

Create(r, k) ==
  /\ comment[k] = None
  /\ comment' = [comment EXCEPT ![k] =
       [author |-> Author(r), key |-> KeyOf(r), text |-> r.payload.text,
        version |-> 1, deleted |-> FALSE, hidden |-> FALSE]]

Update(r, k) ==
  comment' = [comment EXCEPT ![k].text = r.payload.text, ![k].version = @ + 1]

Delete(r, k) ==
  comment' = [comment EXCEPT ![k].text = None, ![k].version = @ + 1, ![k].deleted = TRUE]

\* Mutant of Hide: clears the body as a deletion does.
HideAndClear(r, k) ==
  comment' = [comment EXCEPT ![k].text = None, ![k].version = @ + 1, ![k].hidden = TRUE]

Hide(r, k) ==
  comment' = [comment EXCEPT ![k].version = @ + 1, ![k].hidden = TRUE]

Accepts(r, k) ==
  CASE r.payload.op = "create" -> comment[k] = None /\ MayCreate(r)
    [] r.payload.op = "hide"   -> k = r.payload.comment /\ MayHide(r)
    [] OTHER                   -> k = r.payload.comment /\ MayChange(r)

Apply(r, k) ==
  /\ \/ r.payload.op = "create" /\ Create(r, k)
     \/ r.payload.op = "update" /\ Update(r, k)
     \/ r.payload.op = "delete" /\ Delete(r, k)
     \/ r.payload.op = "hide" /\ Hide(r, k)
  /\ records' = records \cup {KeyOf(r)}

\* What the page does with an answer it still awaits.
Hear(r, ok) ==
  LET g == r.page IN
  IF waiting[g] = r
    THEN /\ waiting' = [waiting EXCEPT ![g] = None]
         /\ intent' = IF ok THEN [intent EXCEPT ![g][r.payload.op] = Complete(@)] ELSE intent
    ELSE UNCHANGED <<waiting, intent>>

Acts(r) == standing[Author(r)] /= "removed"
Served(r) == wire' = wire \ {r} /\ UNCHANGED <<task, standing>>

\* The record of an earlier call answers, whatever has happened since.
ServeAgain(r) ==
  /\ Acts(r)
  /\ Replays(r)
  /\ Hear(r, TRUE)
  /\ Served(r)
  /\ UNCHANGED <<comment, records>>

Serve(r) ==
  /\ Acts(r) /\ ~Replays(r)
  /\ \E k \in Comments : Accepts(r, k) /\ Apply(r, k)
  /\ Hear(r, TRUE)
  /\ Served(r)

Refuse(r) ==
  /\ ~Acts(r) \/ (~Replays(r) /\ \A k \in Comments : ~Accepts(r, k))
  /\ r.payload.op = "create" /\ Acts(r) => ~MayCreate(r)
  /\ Hear(r, FALSE)
  /\ Served(r)
  /\ UNCHANGED <<comment, records>>

-----------------------------------------------------------------------------
\* The task and its members

TaskMoves(t) ==
  /\ task.version < MaxTaskVersion
  /\ task' = [t EXCEPT !.version = @ + 1]
  /\ UNCHANGED <<standing, comment, records, intent, waiting, wire>>

ChangeFields == ~task.done /\ ~task.archived /\ TaskMoves(task)
CompleteTask == ~task.done /\ ~task.archived /\ TaskMoves([task EXCEPT !.done = TRUE])
ReopenTask   == task.done /\ ~task.archived /\ TaskMoves([task EXCEPT !.done = FALSE])
ArchiveTask  == ~task.archived /\ TaskMoves([task EXCEPT !.archived = TRUE])

\* An admin is demoted, a member removed.  Coming back adds nothing here:
\* no request depends on the standing its member had in between.
LoseStanding(m) ==
  /\ standing[m] /= "removed"
  /\ standing' = [standing EXCEPT ![m] = IF @ = "admin" THEN "member" ELSE "removed"]
  /\ UNCHANGED <<task, comment, records, intent, waiting, wire>>

-----------------------------------------------------------------------------
Init ==
  /\ task = [version |-> 1, done |-> FALSE, archived |-> FALSE]
  /\ standing \in [Members -> {"member", "admin"}]
  /\ comment = [k \in Comments |-> None]
  /\ records = {}
  /\ intent = [g \in Pages |-> [o \in Operations |-> [n |-> 1, payload |-> None]]]
  /\ waiting = [g \in Pages |-> None]
  /\ wire = {}

Page(g) ==
  \/ SubmitComment(g) \/ Save(g) \/ Remove(g) \/ HideWithReason(g)
  \/ Repeat(g) \/ GiveUp(g)

Next ==
  \/ \E g \in Pages : Page(g)
  \/ \E r \in wire : Serve(r) \/ ServeAgain(r) \/ Refuse(r) \/ Lose(r)
  \/ ChangeFields \/ CompleteTask \/ ReopenTask \/ ArchiveTask
  \/ \E m \in Members : LoseStanding(m)

Spec == Init /\ [][Next]_vars

-----------------------------------------------------------------------------
\* Properties

\* However often a page repeats a call, and however late a copy of it arrives,
\* one intent makes one comment: creating does not change the task's version,
\* so only the key and its record stand in the way (IntentKeyManager.keyFor,
\* readCommentReplay).
OneCommentPerIntent ==
  \A k, l \in Comments :
    k /= l /\ comment[k] /= None /\ comment[l] /= None => comment[k].key /= comment[l].key

\* While a task is done no comment of it is edited or deleted, also by requests
\* sent before it was completed or after it was edited; an admin may still hide
\* one (evaluateTaskCommentMutation, lockTask).
CompletedCommentsStand ==
  [][task.done => \A k \in Comments : comment[k] /= None =>
       comment'[k] \in {comment[k],
                        [comment[k] EXCEPT !.hidden = TRUE, !.version = @ + 1]}]_vars

\* Deleting and hiding are final and exclude each other, a hidden comment keeps
\* its body for the record, a deleted one keeps none, whichever of edit, delete
\* and hide arrives first (update, delete, hide, the checks of task_comments).
LastWordStands ==
  [][\A k \in Comments : comment[k] /= None =>
       /\ comment[k].deleted \/ comment[k].hidden => comment'[k] = comment[k]
       /\ comment'[k].hidden => comment'[k].text = comment[k].text /\ comment'[k].text /= None
       /\ comment'[k].deleted => comment'[k].text = None
       /\ comment'[k].author = comment[k].author]_vars
=============================================================================
