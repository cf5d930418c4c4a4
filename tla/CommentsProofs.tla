--------------------------- MODULE CommentsProofs ---------------------------
(***************************************************************************)
(* Proofs about Comments, for every number of members, pages and comments  *)
(* and every bound.                                                        *)
(***************************************************************************)
EXTENDS Comments, TLAPS

-----------------------------------------------------------------------------
\* Types, with what the checks of task_comments say of a row.

Payloads ==
  {x \in [op : Operations, comment : Comments \cup {None}, text : Texts \cup {None},
          task : Nat, version : Nat] :
     x.op \in {"create", "update"} => x.text \in Texts}

Calls == [page : Pages, key : Nat, payload : Payloads, adminMode : BOOLEAN]

Keys == Pages \X Operations \X Nat

CommentRows == [author : Members, key : Keys, text : Texts \cup {None}, version : Nat,
                deleted : BOOLEAN, hidden : BOOLEAN]

TaskOK   == task \in [version : Nat, done : BOOLEAN, archived : BOOLEAN]
IntentOK == intent \in [Pages -> [Operations -> [n : Nat, payload : Payloads \cup {None}]]]
WireOK   == wire \subseteq Calls
RowsOK   == comment \in [Comments -> CommentRows \cup {None}]

\* A deleted comment has no body, any other has one, and none is both deleted
\* and hidden.
Bodies ==
  \A k \in Comments : comment[k] /= None =>
    /\ comment[k].deleted => comment[k].text = None /\ ~comment[k].hidden
    /\ ~comment[k].deleted => comment[k].text \in Texts

\* The key that created a comment is recorded.
KeysRecorded == \A k \in Comments : comment[k] /= None => comment[k].key \in records

Inv == TaskOK /\ IntentOK /\ WireOK /\ RowsOK /\ Bodies /\ KeysRecorded /\ OneCommentPerIntent

-----------------------------------------------------------------------------
\* Sending

\* A call is made of the intent of its page.
LEMMA SendOK ==
  ASSUME IntentOK, WireOK, NEW g \in Pages, NEW x \in Payloads, Send(g, x)
  PROVE  /\ IntentOK' /\ WireOK'
         /\ UNCHANGED server
<1>1. PICK i : i = KeyFor(intent[g][x.op], x)
  OBVIOUS
<1>2. x.op \in Operations
  BY DEF Payloads
<1>3. i \in [n : Nat, payload : Payloads \cup {None}]
  BY <1>1, <1>2 DEF IntentOK, KeyFor
<1>4. IntentOK'
  <2>1. intent' = [intent EXCEPT ![g][x.op] = i]
    BY <1>1 DEF Send
  <2> QED
    BY <1>2, <1>3, <2>1 DEF IntentOK
<1>5. PICK b : b = (standing[g[1]] = "admin")
  OBVIOUS
<1>6. PICK r : r = [page |-> g, key |-> i.n, payload |-> x, adminMode |-> b]
  OBVIOUS
<1>7. b \in BOOLEAN
  BY <1>5, Zenon
<1>8. i.n \in Nat
  BY <1>3
<1>9. r \in Calls
  BY <1>6, <1>7, <1>8, Zenon DEF Calls
<1>10. wire' = wire \cup {r}
  BY <1>1, <1>5, <1>6 DEF Send
<1>11. WireOK'
  BY <1>9, <1>10 DEF WireOK
<1>12. UNCHANGED server
  BY DEF Send
<1> QED
  BY <1>4, <1>11, <1>12

\* Whatever a page does, the server is as it was.
LEMMA PageStep ==
  ASSUME TaskOK, IntentOK, WireOK, RowsOK, Bodies, NEW g \in Pages, Page(g)
  PROVE  /\ IntentOK' /\ WireOK'
         /\ UNCHANGED server
<1>1. ASSUME NEW k \in Comments, comment[k] /= None
      PROVE  comment[k].version \in Nat
  BY <1>1 DEF RowsOK, CommentRows
<1>2. CASE SubmitComment(g)
  <2>1. PICK t \in Texts :
          Send(g, [op |-> "create", comment |-> None, text |-> t,
                   task |-> task.version, version |-> 0])
    BY <1>2 DEF SubmitComment
  <2>2. [op |-> "create", comment |-> None, text |-> t,
         task |-> task.version, version |-> 0] \in Payloads
    BY DEF TaskOK, Payloads, Operations
  <2> QED
    BY <2>1, <2>2, SendOK
<1>3. CASE Save(g)
  <2>1. PICK k \in Comments, t \in Texts :
          /\ MayEdit(g, k)
          /\ Send(g, [op |-> "update", comment |-> k, text |-> t,
                      task |-> task.version, version |-> comment[k].version])
    BY <1>3 DEF Save
  <2>2. comment[k].version \in Nat
    BY <1>1, <2>1 DEF MayEdit, Shown
  <2>3. [op |-> "update", comment |-> k, text |-> t,
         task |-> task.version, version |-> comment[k].version] \in Payloads
    BY <2>2 DEF TaskOK, Payloads, Operations
  <2> QED
    BY <2>1, <2>3, SendOK
<1>4. CASE Remove(g)
  <2>1. PICK k \in Comments :
          /\ MayEdit(g, k)
          /\ Send(g, [op |-> "delete", comment |-> k, text |-> None,
                      task |-> task.version, version |-> comment[k].version])
    BY <1>4 DEF Remove
  <2>2. comment[k].version \in Nat
    BY <1>1, <2>1 DEF MayEdit, Shown
  <2>3. [op |-> "delete", comment |-> k, text |-> None,
         task |-> task.version, version |-> comment[k].version] \in Payloads
    BY <2>2 DEF TaskOK, Payloads, Operations
  <2> QED
    BY <2>1, <2>3, SendOK
<1>5. CASE HideWithReason(g)
  <2>1. PICK k \in Comments :
          /\ Shown(k)
          /\ Send(g, [op |-> "hide", comment |-> k, text |-> None,
                      task |-> 0, version |-> comment[k].version])
    BY <1>5 DEF HideWithReason
  <2>2. comment[k].version \in Nat
    BY <1>1, <2>1 DEF Shown
  <2>3. [op |-> "hide", comment |-> k, text |-> None,
         task |-> 0, version |-> comment[k].version] \in Payloads
    BY <2>2 DEF Payloads, Operations
  <2> QED
    BY <2>1, <2>3, SendOK
<1>6. CASE Repeat(g)
  <2>1. PICK o \in Operations :
          intent[g][o].payload /= None /\ Send(g, intent[g][o].payload)
    BY <1>6 DEF Repeat
  <2>2. intent[g][o] \in [n : Nat, payload : Payloads \cup {None}]
    BY DEF IntentOK
  <2>3. intent[g][o].payload \in Payloads
    BY <2>1, <2>2
  <2> QED
    BY <2>1, <2>3, SendOK
<1>7. CASE GiveUp(g)
  BY <1>7 DEF GiveUp, IntentOK, WireOK
<1> QED
  BY <1>2, <1>3, <1>4, <1>5, <1>6, <1>7 DEF Page

-----------------------------------------------------------------------------
\* Serving

\* An answer moves the intent of its page on.
LEMMA HearOK ==
  ASSUME IntentOK, NEW r \in Calls, NEW ok \in BOOLEAN, Hear(r, ok)
  PROVE  IntentOK'
<1>1. r.page \in Pages /\ r.payload.op \in Operations
  BY DEF Calls, Payloads
<1>2. CASE UNCHANGED intent
  BY <1>2 DEF IntentOK
<1>3. CASE intent' = [intent EXCEPT ![r.page][r.payload.op] = Complete(@)]
  <2>1. PICK i : i = Complete(intent[r.page][r.payload.op])
    OBVIOUS
  <2>2. i \in [n : Nat, payload : Payloads \cup {None}]
    BY <1>1, <2>1 DEF IntentOK, Complete
  <2>3. intent' = [intent EXCEPT ![r.page][r.payload.op] = i]
    BY <1>3, <2>1
  <2> QED
    BY <1>1, <2>2, <2>3 DEF IntentOK
<1> QED
  BY <1>2, <1>3 DEF Hear

\* What serving a call may do: create one comment under a key that was not
\* recorded, or change one that is shown, the text only while the task is open.
Created(k, c) ==
  /\ comment[k] = None
  /\ comment' = [comment EXCEPT ![k] = c]
  /\ c.key \notin records
  /\ c.text \in Texts
  /\ ~c.deleted

Changed(k, c) ==
  /\ comment[k] /= None
  /\ ~comment[k].deleted
  /\ ~comment[k].hidden
  /\ comment' = [comment EXCEPT ![k] = c]
  /\ c.author = comment[k].author
  /\ c.key = comment[k].key
  /\ \/ /\ c = [comment[k] EXCEPT !.hidden = TRUE, !.version = @ + 1]
        /\ c.hidden /\ ~c.deleted
        /\ c.text = comment[k].text
     \/ /\ ~task.done
        /\ ~c.hidden
        /\ \/ c.deleted /\ c.text = None
           \/ ~c.deleted /\ c.text \in Texts

\* A changed row is a row.
LEMMA RowKept ==
  ASSUME NEW d \in CommentRows, NEW t \in Texts \cup {None}
  PROVE  /\ [d EXCEPT !.text = t, !.version = @ + 1] \in CommentRows
         /\ [d EXCEPT !.text = t, !.version = @ + 1, !.deleted = TRUE] \in CommentRows
         /\ [d EXCEPT !.hidden = TRUE, !.version = @ + 1] \in CommentRows
<1>1. PICK e : e = [d EXCEPT !.text = t]
  OBVIOUS
<1>2. PICK f : f = [e EXCEPT !.version = @ + 1]
  OBVIOUS
<1>3. PICK h : h = [d EXCEPT !.hidden = TRUE]
  OBVIOUS
<1>4. e \in CommentRows
  BY <1>1 DEF CommentRows
<1>5. f \in CommentRows
  BY <1>2, <1>4 DEF CommentRows
<1>6. [f EXCEPT !.deleted = TRUE] \in CommentRows
  BY <1>5 DEF CommentRows
<1>7. h \in CommentRows
  BY <1>3 DEF CommentRows
<1>8. [h EXCEPT !.version = @ + 1] \in CommentRows
  BY <1>7 DEF CommentRows
<1>9. /\ f = [d EXCEPT !.text = t, !.version = @ + 1]
      /\ [f EXCEPT !.deleted = TRUE] = [d EXCEPT !.text = t, !.version = @ + 1, !.deleted = TRUE]
      /\ [h EXCEPT !.version = @ + 1] = [d EXCEPT !.hidden = TRUE, !.version = @ + 1]
  BY <1>1, <1>2, <1>3, Zenon
<1> QED
  BY <1>5, <1>6, <1>8, <1>9, Zenon

LEMMA ServeOutcome ==
  ASSUME Inv, NEW r \in wire, Serve(r)
  PROVE  \E k \in Comments, c \in CommentRows :
           /\ Created(k, c) \/ Changed(k, c)
           /\ records \subseteq records' /\ c.key \in records'
<1>1. /\ r \in Calls
      /\ r.payload \in Payloads
      /\ r.page \in Pages
      /\ Author(r) \in Members
      /\ KeyOf(r) \in Keys
  <2>1. r \in Calls
    BY DEF Inv, WireOK
  <2>2. r.page \in Pages /\ r.payload \in Payloads /\ r.key \in Nat
    BY <2>1 DEF Calls
  <2>3. r.payload.op \in Operations
    BY <2>2 DEF Payloads
  <2>4. r.page[1] \in Members
    BY <2>2 DEF Pages
  <2> QED
    BY <2>1, <2>2, <2>3, <2>4 DEF Author, KeyOf, Keys
<1>2. PICK k \in Comments : Accepts(r, k) /\ Apply(r, k)
  BY DEF Serve
<1>3. KeyOf(r) \notin records /\ records' = records \cup {KeyOf(r)}
  BY <1>2 DEF Serve, Replays, Apply
<1>4. ASSUME r.payload.op = "create"
      PROVE  \E c \in CommentRows : Created(k, c) /\ c.key \in records'
  <2>1. PICK c : c = [author |-> Author(r), key |-> KeyOf(r), text |-> r.payload.text,
                      version |-> 1, deleted |-> FALSE, hidden |-> FALSE]
    OBVIOUS
  <2>2. r.payload.text \in Texts
    BY <1>1, <1>4 DEF Payloads
  <2>3. c \in CommentRows
    BY <1>1, <2>1, <2>2 DEF CommentRows
  <2>4. c.key = KeyOf(r) /\ c.text = r.payload.text /\ ~c.deleted
    BY <2>1
  <2>5. comment[k] = None /\ comment' = [comment EXCEPT ![k] = c]
    BY <1>2, <1>4, <2>1 DEF Accepts, Apply, Create
  <2> QED
    BY <1>3, <2>2, <2>3, <2>4, <2>5 DEF Created
<1>5. ASSUME r.payload.op /= "create"
      PROVE  \E c \in CommentRows : Changed(k, c)
  <2>1. PICK d : d = comment[k]
    OBVIOUS
  <2>2. d /= None /\ ~d.deleted /\ ~d.hidden
    BY <1>2, <1>5, <2>1 DEF Accepts, MayHide, MayChange, Shown
  <2>3. d \in CommentRows
    BY <2>1, <2>2 DEF Inv, RowsOK
  <2>4. comment[k] /= None /\ ~comment[k].deleted /\ ~comment[k].hidden
    BY <2>1, <2>2, Zenon
  <2>5. CASE r.payload.op = "update"
    <3>1. PICK c : c = [d EXCEPT !.text = r.payload.text, !.version = @ + 1]
      OBVIOUS
    <3>2. comment' = [comment EXCEPT ![k] = c] /\ ~task.done
      BY <1>2, <2>1, <2>5, <3>1 DEF Accepts, MayChange, Apply, Update
    <3>3. r.payload.text \in Texts
      BY <1>1, <2>5 DEF Payloads
    <3>4. c \in CommentRows
      BY <2>3, <3>1, <3>3, RowKept, Zenon
    <3>8. c.author = d.author /\ c.key = d.key /\ c.text \in Texts
      BY <2>3, <3>1, <3>3 DEF CommentRows
    <3>5. ~c.deleted /\ ~c.hidden
      BY <2>2, <2>3, <3>1 DEF CommentRows
    <3>6. c.author = comment[k].author /\ c.key = comment[k].key
      BY <2>1, <3>8
    <3>7. Changed(k, c)
      BY <2>4, <3>2, <3>8, <3>5, <3>6, Zenon DEF Changed
    <3> QED
      BY <3>4, <3>7, Zenon
  <2>6. CASE r.payload.op = "delete"
    <3>1. PICK c : c = [d EXCEPT !.text = None, !.version = @ + 1, !.deleted = TRUE]
      OBVIOUS
    <3>2. comment' = [comment EXCEPT ![k] = c] /\ ~task.done
      BY <1>2, <2>1, <2>6, <3>1 DEF Accepts, MayChange, Apply, Delete
    <3>3. c.author = d.author /\ c.key = d.key /\ c.text = None /\ c.deleted
      BY <2>3, <3>1 DEF CommentRows
    <3>7. c \in CommentRows
      BY <2>3, <3>1, RowKept, Zenon
    <3>4. ~c.hidden
      BY <2>2, <2>3, <3>1 DEF CommentRows
    <3>5. c.author = comment[k].author /\ c.key = comment[k].key
      BY <2>1, <3>3
    <3>6. Changed(k, c)
      BY <2>4, <3>2, <3>3, <3>4, <3>5, Zenon DEF Changed
    <3> QED
      BY <3>6, <3>7, Zenon
  <2>7. CASE r.payload.op = "hide"
    <3>1. PICK c : c = [d EXCEPT !.hidden = TRUE, !.version = @ + 1]
      OBVIOUS
    <3>2. comment' = [comment EXCEPT ![k] = c]
      BY <1>2, <2>1, <2>7, <3>1 DEF Apply, Hide
    <3>3. c.author = d.author /\ c.key = d.key /\ c.text = d.text /\ c.hidden
      BY <2>3, <3>1 DEF CommentRows
    <3>7. c \in CommentRows
      BY <2>3, <3>1, RowKept, Zenon
    <3>4. ~c.deleted
      BY <2>2, <2>3, <3>1 DEF CommentRows
    <3>5. /\ c = [comment[k] EXCEPT !.hidden = TRUE, !.version = @ + 1]
          /\ c.author = comment[k].author /\ c.key = comment[k].key /\ c.text = comment[k].text
      BY <2>1, <3>1, <3>3
    <3>6. Changed(k, c)
      BY <2>4, <3>2, <3>3, <3>4, <3>5, Zenon DEF Changed
    <3> QED
      BY <3>6, <3>7, Zenon
  <2> QED
    BY <1>2, <1>5, <2>5, <2>6, <2>7 DEF Apply
<1>6. ASSUME NEW c, Changed(k, c)
      PROVE  c.key \in records'
  BY <1>3, <1>6 DEF Changed, Inv, KeysRecorded
<1> QED
  BY <1>3, <1>4, <1>5, <1>6

-----------------------------------------------------------------------------
\* The invariant.

\* The steps that change a comment.
LEMMA ServeStep ==
  ASSUME Inv, NEW r \in wire, Serve(r)
  PROVE  Inv'
<1>1. PICK k \in Comments, c \in CommentRows :
        /\ Created(k, c) \/ Changed(k, c)
        /\ records \subseteq records'
        /\ c.key \in records'
  BY ServeOutcome
<1>2. comment \in [Comments -> CommentRows \cup {None}] /\ comment' = [comment EXCEPT ![k] = c]
  BY <1>1 DEF Inv, RowsOK, Created, Changed
<1>3. comment'[k] = c /\ \A l \in Comments \ {k} : comment'[l] = comment[l]
  BY <1>2
<1>4. TaskOK' /\ WireOK'
  BY DEF Serve, Served, Inv, TaskOK, WireOK
<1>5. IntentOK'
  <2>1. r \in Calls
    BY DEF Inv, WireOK
  <2> QED
    BY <2>1, HearOK DEF Serve, Inv
<1>6. RowsOK'
  BY <1>2 DEF RowsOK
<1>7. Bodies'
  <2>1. /\ c.deleted => c.text = None /\ ~c.hidden
        /\ ~c.deleted => c.text \in Texts
    <3>1. CASE Created(k, c)
      BY <3>1, Zenon DEF Created
    <3>2. CASE Changed(k, c)
      BY <3>2, Zenon DEF Changed, Inv, Bodies
    <3> QED
      BY <1>1, <3>1, <3>2
  <2>2. ASSUME NEW l \in Comments, comment'[l] /= None
        PROVE  /\ comment'[l].deleted => comment'[l].text = None /\ ~comment'[l].hidden
               /\ ~comment'[l].deleted => comment'[l].text \in Texts
    <3>1. CASE l = k
      BY <1>3, <2>1, <3>1, Zenon
    <3>2. CASE l /= k
      BY <1>3, <2>2, <3>2, Zenon DEF Inv, Bodies
    <3> QED
      BY <3>1, <3>2
  <2> QED
    BY <2>2, Zenon DEF Bodies
<1>8. KeysRecorded'
  BY <1>1, <1>3 DEF Inv, KeysRecorded
<1>9. OneCommentPerIntent'
  <2>1. ASSUME NEW l \in Comments \ {k}, comment[l] /= None
        PROVE  comment[l].key /= c.key
    BY <1>1, <2>1 DEF Inv, KeysRecorded, OneCommentPerIntent, Created, Changed
  <2> QED
    BY <1>3, <2>1 DEF Inv, OneCommentPerIntent
<1> QED
  BY <1>4, <1>5, <1>6, <1>7, <1>8, <1>9 DEF Inv

\* The inductive step.
LEMMA InvStep ==
  ASSUME Inv, [Next]_vars
  PROVE  Inv'
<1>1. ASSUME NEW g \in Pages, Page(g)
      PROVE  Inv'
  <2>1. IntentOK' /\ WireOK' /\ UNCHANGED server
    BY <1>1, PageStep DEF Inv
  <2> QED
    BY <2>1 DEF server, Inv, TaskOK, RowsOK, Bodies, KeysRecorded, OneCommentPerIntent
<1>2. ASSUME NEW r \in wire, Serve(r)
      PROVE  Inv'
  BY <1>2, ServeStep
<1>3. ASSUME NEW r \in wire, ServeAgain(r) \/ Refuse(r)
      PROVE  Inv'
  <2>1. r \in Calls
    BY DEF Inv, WireOK
  <2>2. IntentOK'
    BY <1>3, <2>1, HearOK DEF Inv, ServeAgain, Refuse
  <2>3. wire' \subseteq wire /\ UNCHANGED <<task, comment, records>>
    BY <1>3 DEF ServeAgain, Refuse, Served
  <2> QED
    BY <2>2, <2>3 DEF Inv, TaskOK, WireOK, RowsOK, Bodies, KeysRecorded, OneCommentPerIntent
<1>4. ASSUME NEW r \in wire, Lose(r)
      PROVE  Inv'
  BY <1>4 DEF Lose, server, Inv, TaskOK, IntentOK, WireOK, RowsOK, Bodies, KeysRecorded,
              OneCommentPerIntent
<1>5. CASE ChangeFields \/ CompleteTask \/ ReopenTask \/ ArchiveTask
  <2>1. PICK t : /\ t \in {task, [task EXCEPT !.done = TRUE], [task EXCEPT !.done = FALSE],
                           [task EXCEPT !.archived = TRUE]}
                 /\ TaskMoves(t)
    BY <1>5 DEF ChangeFields, CompleteTask, ReopenTask, ArchiveTask
  <2>2. UNCHANGED <<comment, records, intent, wire>> /\ task' = [t EXCEPT !.version = @ + 1]
    BY <2>1 DEF TaskMoves
  <2>3. t \in [version : Nat, done : BOOLEAN, archived : BOOLEAN]
    BY <2>1 DEF Inv, TaskOK
  <2>4. TaskOK'
    BY <2>2, <2>3 DEF TaskOK
  <2> QED
    BY <2>2, <2>4 DEF Inv, IntentOK, WireOK, RowsOK, Bodies, KeysRecorded, OneCommentPerIntent
<1>6. CASE (\E m \in Members : LoseStanding(m)) \/ UNCHANGED vars
  BY <1>6 DEF LoseStanding, vars, server, Inv, TaskOK, IntentOK, WireOK, RowsOK, Bodies,
              KeysRecorded, OneCommentPerIntent
<1> QED
  BY <1>1, <1>2, <1>3, <1>4, <1>5, <1>6 DEF Next

\* The invariant holds throughout.
LEMMA Invariance == Spec => []Inv
<1>1. Init => Inv
  BY DEF Init, Inv, TaskOK, IntentOK, WireOK, RowsOK, Bodies, KeysRecorded, OneCommentPerIntent
<1>2. Inv /\ [Next]_vars => Inv'
  BY InvStep
<1> QED
  BY <1>1, <1>2, PTL DEF Spec

\* One intent makes one comment, however often its call is repeated and however
\* late a copy of it arrives: a comment is made only under a key that is not
\* recorded, and recorded with it.
THEOREM OnePerIntent == Spec => []OneCommentPerIntent
BY Invariance, PTL DEF Inv

\* What a step leaves of a comment.
LEMMA CommentStep ==
  ASSUME Inv, [Next]_vars
  PROVE  \/ UNCHANGED comment
         \/ \E k \in Comments, c \in CommentRows : Created(k, c) \/ Changed(k, c)
<1>1. CASE \E r \in wire : Serve(r)
  BY <1>1, ServeOutcome
<1>2. CASE ~\E r \in wire : Serve(r)
  <2>1. CASE \E g \in Pages : Page(g)
    BY <2>1, PageStep DEF Inv, server
  <2>2. CASE \E r \in wire : ServeAgain(r) \/ Refuse(r) \/ Lose(r)
    BY <2>2 DEF ServeAgain, Refuse, Lose, server
  <2>3. CASE ChangeFields \/ CompleteTask \/ ReopenTask \/ ArchiveTask
    BY <2>3 DEF ChangeFields, CompleteTask, ReopenTask, ArchiveTask, TaskMoves
  <2>4. CASE \E m \in Members : LoseStanding(m)
    BY <2>4 DEF LoseStanding
  <2>5. CASE UNCHANGED vars
    BY <2>5 DEF vars, server
  <2> QED
    BY <1>2, <2>1, <2>2, <2>3, <2>4, <2>5 DEF Next
<1> QED
  BY <1>1, <1>2

\* A completed task keeps its comments: no edit or deletion gets past the
\* completion, only hiding does.
THEOREM CompletedKeep == Spec => CompletedCommentsStand
<1>1. ASSUME Inv, [Next]_vars, task.done, NEW k \in Comments, comment[k] /= None
      PROVE  comment'[k] \in {comment[k],
                              [comment[k] EXCEPT !.hidden = TRUE, !.version = @ + 1]}
  <2>1. CASE UNCHANGED comment
    BY <2>1
  <2>2. ASSUME NEW l \in Comments, NEW c \in CommentRows, Created(l, c) \/ Changed(l, c)
        PROVE  comment'[k] \in {comment[k],
                                [comment[k] EXCEPT !.hidden = TRUE, !.version = @ + 1]}
    <3>1. comment' = [comment EXCEPT ![l] = c] /\ (k = l => Changed(l, c))
      BY <1>1, <2>2 DEF Created, Changed
    <3>2. comment'[k] = IF k = l THEN c ELSE comment[k]
      BY <1>1, <3>1 DEF Inv, RowsOK
    <3> QED
      BY <1>1, <3>1, <3>2 DEF Changed
  <2> QED
    BY <1>1, <2>1, <2>2, CommentStep
<1>2. Inv /\ [Next]_vars =>
        [task.done => \A k \in Comments : comment[k] /= None =>
           comment'[k] \in {comment[k],
                            [comment[k] EXCEPT !.hidden = TRUE, !.version = @ + 1]}]_vars
  BY <1>1
<1> QED
  BY <1>2, Invariance, PTL DEF Spec, CompletedCommentsStand

\* Deleting and hiding are final, whichever of the calls that reach a comment
\* comes first, and a comment keeps its author and, when hidden, its body.
THEOREM LastWords == Spec => LastWordStands
<1> DEFINE Stands(k) ==
      /\ comment[k].deleted \/ comment[k].hidden => comment'[k] = comment[k]
      /\ comment'[k].hidden => comment'[k].text = comment[k].text /\ comment'[k].text /= None
      /\ comment'[k].deleted => comment'[k].text = None
      /\ comment'[k].author = comment[k].author
<1>1. ASSUME Inv, [Next]_vars, NEW k \in Comments, comment[k] /= None
      PROVE  Stands(k)
  <2>1. ASSUME comment'[k] = comment[k]
        PROVE  Stands(k)
    <3>1. comment[k].hidden => comment[k].text /= None
      BY <1>1, CommentsAssumption, Zenon DEF Inv, Bodies
    <3>2. comment[k].deleted => comment[k].text = None
      BY <1>1, Zenon DEF Inv, Bodies
    <3> QED
      BY <2>1, <3>1, <3>2, Zenon
  <2>2. ASSUME NEW c, Changed(k, c), comment'[k] = c
        PROVE  Stands(k)
    <3>1. comment[k].text \in Texts /\ comment[k].text /= None
      BY <1>1, <2>2, CommentsAssumption, Zenon DEF Inv, Bodies, Changed
    <3> QED
      BY <2>2, <3>1, Zenon DEF Changed
  <2>3. ASSUME NEW l \in Comments, NEW c \in CommentRows, Created(l, c) \/ Changed(l, c)
        PROVE  Stands(k)
    <3>1. comment' = [comment EXCEPT ![l] = c] /\ (k = l => Changed(l, c))
      BY <1>1, <2>3 DEF Created, Changed
    <3>2. comment'[k] = IF k = l THEN c ELSE comment[k]
      BY <1>1, <3>1 DEF Inv, RowsOK
    <3> QED
      BY <2>1, <2>2, <3>1, <3>2
  <2> QED
    BY <1>1, <2>1, <2>3, CommentStep
<1>2. Inv /\ [Next]_vars =>
        [\A k \in Comments : comment[k] /= None =>
           /\ comment[k].deleted \/ comment[k].hidden => comment'[k] = comment[k]
           /\ comment'[k].hidden => comment'[k].text = comment[k].text /\ comment'[k].text /= None
           /\ comment'[k].deleted => comment'[k].text = None
           /\ comment'[k].author = comment[k].author]_vars
  BY <1>1, Zenon
<1> QED
  BY <1>2, Invariance, PTL DEF Spec, LastWordStands
=============================================================================
