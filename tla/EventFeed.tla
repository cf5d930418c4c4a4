---------------------------- MODULE EventFeed ----------------------------
(***************************************************************************)
(* The transactional outbox, the worker processes that dispatch it, the    *)
(* feed of resource invalidations they write, and one browser that follows *)
(* the feed over a server-sent event stream.                               *)
(*                                                                         *)
(* A business transaction inserts its outbox event with its own changes.   *)
(* A worker claims the first available event with FOR UPDATE SKIP LOCKED,  *)
(* and in the same transaction writes the derived rows (activity,          *)
(* notification), the feed row, whose cursor comes from a sequence that no *)
(* rollback undoes, and processed_at.  If that fails the transaction is    *)
(* rolled back and a second one puts the event off.  Each dispatch ends by *)
(* scheduling the next as the one job with the key "ngapd-outbox-dispatch".*)
(*                                                                         *)
(* available_at is the time at which a request's transaction began, which  *)
(* may be before that of an event already committed: an event takes any    *)
(* place in the queue.  A notification's event has its source's time.      *)
(* Time is otherwise abstracted: `delayed` is in order of available_at,    *)
(* and its head becomes available at some point (Elapse).                  *)
(*                                                                         *)
(* pruneThrough has no caller, so the retention floor is 0 and no cursor   *)
(* is refused as expired.                                                  *)
(***************************************************************************)
EXTENDS Integers, Sequences, FiniteSets, SequencesExt

CONSTANTS
  Workers,      \* worker processes
  NoEvent,      \* not an event
  Sources,      \* business transactions, each with one outbox event
  Notifying,    \* those that notify somebody
  Poison,       \* those whose projection always fails
  Visible,      \* those whose audiences include the browser's user
  BatchLimit,   \* most rows of one read of the feed: 100 in the code
  MaxFaults     \* bound on failures: transactions, crashes, connections, fetches

ASSUME SourcesAssumption ==
  Notifying \subseteq Sources /\ Poison \subseteq Sources /\ Visible \subseteq Sources
ASSUME BoundsAssumption == BatchLimit \in Nat \ {0} /\ MaxFaults \in Nat

VARIABLES
  ready,       \* unprocessed outbox events available now, by available_at
  delayed,     \* unprocessed outbox events put off, by available_at
  processed,   \* events with processed_at
  projected,   \* task_projection_events
  notified,    \* how many notifications each source has made
  lastCursor,  \* the feed's sequence
  feed,        \* resource_invalidation_events
  worker,      \* each worker process and the transaction it has open
  scheduled,   \* a dispatch job is waiting in the job queue
  stream,      \* the page's EventSource and the server's end of it
  stale,       \* events whose resources the browser is to fetch again
  view,        \* events whose changes the browser's data shows
  delivered,   \* history: events this EventSource has delivered
  faults       \* how many faults have happened

outboxVars == <<ready, delayed, processed, projected, notified>>
readerVars == <<stream, stale, view, delivered>>
vars == <<outboxVars, lastCursor, feed, worker, scheduled, readerVars, faults>>

Events == Sources \X {"change", "notification"}
Change(s) == <<s, "change">>
Notification(s) == <<s, "notification">>

Pending == ToSet(ready) \cup ToSet(delayed)
Committed == Pending \cup processed

(* The queues that q may become when the events N join it: each takes any   *)
(* place, and those that were there keep their order.                      *)
Enqueued(q, N) ==
  {r \in SetToSeqs(ToSet(q) \cup N) :
     \A i, j \in DOMAIN q :
       i < j => \E k, l \in DOMAIN r : k < l /\ r[k] = q[i] /\ r[l] = q[j]}

(* The queue q without event e.                                            *)
Without(q, e) ==
  IF e \in ToSet(q) THEN RemoveAt(q, CHOOSE i \in DOMAIN q : q[i] = e) ELSE q

Idle == [phase |-> "idle", event |-> NoEvent, cursor |-> 0]
Down == [Idle EXCEPT !.phase = "down"]

InTransaction == {"claimed", "written"}

(* EventSource.readyState: closed is for good.                             *)
ReadyStates == {"connecting", "open", "closed"}

(* An EventSource as it is made: it has no last event id, which the server  *)
(* reads as cursor 0.                                                      *)
NewSource == [state |-> "connecting", cursor |-> 0, batch |-> <<>>]

Locked(e) == \E w \in Workers : worker[w].phase \in InTransaction /\ worker[w].event = e

Init ==
  /\ ready = <<>> /\ delayed = <<>>
  /\ processed = {} /\ projected = {}
  /\ notified = [s \in Sources |-> 0]
  /\ lastCursor = 0
  /\ feed = {}
  /\ worker = [w \in Workers |-> Down]
  /\ scheduled = FALSE
  /\ stream = NewSource
  /\ stale = {} /\ view = {} /\ delivered = {}
  /\ faults = 0

Fault == faults < MaxFaults /\ faults' = faults + 1

-----------------------------------------------------------------------------
(* The outbox.                                                             *)

(* A business transaction commits, and its outbox event with it.           *)
CommitSource(s) ==
  /\ Change(s) \notin Committed
  /\ ready' \in Enqueued(ready, {Change(s)})
  /\ UNCHANGED <<delayed, processed, projected, notified, lastCursor, feed, worker,
                 scheduled, readerVars, faults>>

(* The event put off first becomes available.                              *)
Elapse ==
  /\ delayed # <<>>
  /\ ready' = Append(ready, Head(delayed))
  /\ delayed' = Tail(delayed)
  /\ UNCHANGED <<processed, projected, notified, lastCursor, feed, worker, scheduled,
                 readerVars, faults>>

(* Mutant: no unique key.                                                  *)
InsertAnother(s) == notified[s] + 1

(* How many notifications source s has once its event is projected again:  *)
(* (recipient_user_id, occurrence_key) is unique.                          *)
InsertNotification(s) == IF notified[s] = 0 THEN 1 ELSE notified[s]

(* Project the events E in one transaction: each is marked, and a change   *)
(* makes its notification, with the outbox event that announces it.  The   *)
(* others that are available are q.                                        *)
Project(E, q) ==
  LET sources == {s \in Notifying : Change(s) \in E}
      new     == {s \in sources : notified[s] = 0}
  IN  /\ projected' = projected \cup E
      /\ notified' = [s \in Sources |->
                        IF s \in sources THEN InsertNotification(s) ELSE notified[s]]
      /\ ready' \in Enqueued(q, {Notification(s) : s \in new})

(* rebuildProject: drop the marks of every task event and project it anew, *)
(* processed or not.  One that cannot be projected rolls all of it back.   *)
Rebuild ==
  LET changes == {e \in Committed : e[2] = "change"} IN
  /\ changes \cap {Change(s) : s \in Poison} = {}
  /\ Project(changes, ready)
  /\ UNCHANGED <<delayed, processed, lastCursor, feed, worker, scheduled, readerVars, faults>>

-----------------------------------------------------------------------------
(* A worker process.                                                       *)

(* A process starts and schedules a dispatch; a job with the key that is    *)
(* already waiting is kept.                                                *)
StartWorker(w) ==
  /\ worker[w] = Down
  /\ worker' = [worker EXCEPT ![w] = Idle]
  /\ scheduled' = TRUE
  /\ UNCHANGED <<outboxVars, lastCursor, feed, readerVars, faults>>

(* It takes the job: one at a time (concurrency 1).                        *)
TakeJob(w) ==
  /\ worker[w] = Idle
  /\ scheduled
  /\ scheduled' = FALSE
  /\ worker' = [worker EXCEPT ![w].phase = "dispatching"]
  /\ UNCHANGED <<outboxVars, lastCursor, feed, readerVars, faults>>

(* Mutant: no row locks.                                                   *)
AnyAvailable == DOMAIN ready

(* The places of the available events that nobody has locked.              *)
Claimable == {i \in DOMAIN ready : ~Locked(ready[i])}

(* It locks the first of them, if there is one.                            *)
Claim(w) ==
  /\ worker[w].phase = "dispatching"
  /\ \/ /\ Claimable = {}
        /\ worker' = [worker EXCEPT ![w] = [Idle EXCEPT !.phase = "finishing"]]
     \/ \E i \in Claimable :
          /\ \A j \in Claimable : i <= j
          /\ worker' = [worker EXCEPT ![w] =
                          [phase |-> "claimed", event |-> ready[i], cursor |-> 0]]
  /\ UNCHANGED <<outboxVars, lastCursor, feed, scheduled, readerVars, faults>>

(* It writes the derived rows and the feed row, not committed yet.         *)
Write(w) ==
  /\ worker[w].phase = "claimed"
  /\ worker[w].event \notin {Change(s) : s \in Poison}
  /\ lastCursor' = lastCursor + 1
  /\ worker' = [worker EXCEPT ![w].phase = "written", ![w].cursor = lastCursor']
  /\ UNCHANGED <<outboxVars, feed, scheduled, readerVars, faults>>

(* It commits: an event already projected (by a rebuild) is not projected  *)
(* again, but all that is committed is in the feed and processed.          *)
Settle(w) ==
  LET e == worker[w].event IN
  /\ worker[w].phase = "written"
  /\ Project({e} \ projected, Without(ready, e))
  /\ processed' = processed \cup {e}
  /\ feed' = feed \cup {[cursor |-> worker[w].cursor, event |-> e]}
  /\ worker' = [worker EXCEPT ![w] = [Idle EXCEPT !.phase = "finishing"]]
  /\ UNCHANGED <<delayed, lastCursor, scheduled, readerVars, faults>>

(* The transaction fails and is rolled back.                               *)
RollBack(w) ==
  /\ \/ worker[w].phase = "claimed" /\ worker[w].event \in {Change(s) : s \in Poison}
        /\ UNCHANGED faults
     \/ worker[w].phase \in InTransaction /\ Fault
  /\ worker' = [worker EXCEPT ![w].phase = "failed"]
  /\ UNCHANGED <<outboxVars, lastCursor, feed, scheduled, readerVars>>

(* Mutant: available_at is left alone.                                     *)
KeepPlace(w) ==
  /\ worker[w].phase = "failed"
  /\ ~Locked(worker[w].event)
  /\ worker' = [worker EXCEPT ![w] = [Idle EXCEPT !.phase = "finishing"]]
  /\ UNCHANGED <<outboxVars, lastCursor, feed, scheduled, readerVars, faults>>

(* It puts the event off in a transaction of its own, unless another worker *)
(* has processed it since; if another has it locked, this one waits.       *)
Postpone(w) ==
  LET e == worker[w].event IN
  /\ worker[w].phase = "failed"
  /\ ~Locked(e)
  /\ ready' = Without(ready, e)
  /\ delayed' = IF e \in processed THEN delayed ELSE Append(Without(delayed, e), e)
  /\ worker' = [worker EXCEPT ![w] = [Idle EXCEPT !.phase = "finishing"]]
  /\ UNCHANGED <<processed, projected, notified, lastCursor, feed, scheduled, readerVars,
                 faults>>

(* It schedules the next dispatch, whether this one succeeded or not.      *)
Finish(w) ==
  /\ worker[w].phase = "finishing"
  /\ worker' = [worker EXCEPT ![w] = Idle]
  /\ scheduled' = TRUE
  /\ UNCHANGED <<outboxVars, lastCursor, feed, readerVars, faults>>

(* The process dies: its transaction is rolled back, and the job it was    *)
(* running stays locked.                                                   *)
Crash(w) ==
  /\ worker[w] # Down
  /\ Fault
  /\ worker' = [worker EXCEPT ![w] = Down]
  /\ UNCHANGED <<outboxVars, lastCursor, feed, scheduled, readerVars>>

-----------------------------------------------------------------------------
(* The browser and its stream.                                             *)

(* What a read after cursor c returns: the rows of the feed that come later *)
(* and that the user may see, oldest first, at most BatchLimit of them.     *)
ReadAuthorized(c) ==
  LET rows == {f \in feed : f.cursor > c /\ f.event[1] \in Visible}
      inOrder == {q \in SetToSeqs(rows) :
                    \A i, j \in DOMAIN q : i < j => q[i].cursor < q[j].cursor}
  IN  {SubSeq(q, 1, IF Len(q) < BatchLimit THEN Len(q) ELSE BatchLimit) : q \in inOrder}

(* The source connects, and is sent what comes after cursor c first.       *)
ConnectAfter(c) ==
  /\ stream.state = "connecting"
  /\ \E rows \in ReadAuthorized(c) :
       stream' = [stream EXCEPT !.state = "open", !.batch = rows]
  /\ UNCHANGED <<outboxVars, lastCursor, feed, worker, scheduled, view, delivered, faults>>

(* Mutant: nothing is fetched again on connecting.                         *)
OpenQuietly == ConnectAfter(stream.cursor) /\ UNCHANGED stale

(* Mutant: the last event id is not used on reconnecting.                  *)
OpenFromStart == ConnectAfter(0) /\ stale' = Events

(* EventSource connects, or connects again, after the last event id it has  *)
(* received; once connected, the page fetches all it shows again.          *)
Open == ConnectAfter(stream.cursor) /\ stale' = Events

(* The attempt is answered with anything but a stream (401, 500, the 502 of *)
(* a proxy whose api restarts): EventSource gives up for good, and the page *)
(* does not listen for it.                                                 *)
Refuse ==
  /\ stream.state = "connecting"
  /\ Fault
  /\ stream' = [stream EXCEPT !.state = "closed"]
  /\ UNCHANGED <<outboxVars, lastCursor, feed, worker, scheduled, stale, view, delivered>>

(* The user goes to another project: the page closes its source and makes a *)
(* new one, which starts over.                                             *)
Renew ==
  /\ stream' = NewSource
  /\ delivered' = {}
  /\ UNCHANGED <<outboxVars, lastCursor, feed, worker, scheduled, stale, view, faults>>

Poll ==
  /\ stream.state = "open" /\ stream.batch = <<>>
  /\ \E rows \in ReadAuthorized(stream.cursor) : stream' = [stream EXCEPT !.batch = rows]
  /\ UNCHANGED <<outboxVars, lastCursor, feed, worker, scheduled, stale, view, delivered,
                 faults>>

(* An event arrives: what it names is to be fetched again.                 *)
Deliver ==
  /\ stream.state = "open" /\ stream.batch # <<>>
  /\ LET f == Head(stream.batch) IN
     /\ stream' = [stream EXCEPT !.cursor = f.cursor, !.batch = Tail(@)]
     /\ stale' = stale \cup {f.event}
     /\ delivered' = delivered \cup {f.event}
  /\ UNCHANGED <<outboxVars, lastCursor, feed, worker, scheduled, view, faults>>

(* The server ends a stream after 30 s, between two batches, or the        *)
(* connection is lost with what was on its way: it is to connect again.    *)
Close ==
  /\ stream.state = "open"
  /\ \/ stream.batch = <<>> /\ UNCHANGED faults
     \/ stream.batch # <<>> /\ Fault
  /\ stream' = [stream EXCEPT !.state = "connecting", !.batch = <<>>]
  /\ UNCHANGED <<outboxVars, lastCursor, feed, worker, scheduled, stale, view, delivered>>

(* The page's fetch returns the resources as they are, or fails after its   *)
(* one retry, and is not tried again before something else makes it stale. *)
Refetch ==
  /\ stale # {}
  /\ stale' = {}
  /\ \/ view' = view \cup (stale \cap Committed) /\ UNCHANGED faults
     \/ view' = view /\ Fault
  /\ UNCHANGED <<outboxVars, lastCursor, feed, worker, scheduled, stream, delivered>>

-----------------------------------------------------------------------------
WorkerStep(w) ==
  \/ TakeJob(w) \/ Claim(w) \/ Write(w) \/ Settle(w)
  \/ RollBack(w) \/ Postpone(w) \/ Finish(w)

ReaderStep == Open \/ Refuse \/ Renew \/ Poll \/ Deliver \/ Close \/ Refetch

Next ==
  \/ \E s \in Sources : CommitSource(s)
  \/ Elapse
  \/ Rebuild
  \/ \E w \in Workers : StartWorker(w) \/ WorkerStep(w) \/ Crash(w)
  \/ ReaderStep

Spec == Init /\ [][Next]_vars

(* A process that is up goes on, and one that is down is restarted          *)
(* (restart: unless-stopped); time passes; a stream delivers, and ends after *)
(* 30 s; EventSource tries to connect until it is answered, well or badly;  *)
(* a fetch ends.  A source that has given up need never be renewed.        *)
Fairness ==
  /\ WF_vars(Elapse)
  /\ \A w \in Workers : WF_vars(StartWorker(w) \/ WorkerStep(w))
  /\ WF_vars(Open \/ Refuse \/ Deliver \/ Close)
  /\ WF_vars(Refetch)

FairSpec == Spec /\ Fairness
-----------------------------------------------------------------------------
TypeOK ==
  /\ {ready, delayed} \subseteq Seq(Events)
  /\ processed \subseteq Events /\ projected \subseteq Events
  /\ notified \in [Sources -> Nat]
  /\ lastCursor \in Nat
  /\ feed \subseteq [cursor : 1..lastCursor, event : Events]
  /\ worker \in [Workers ->
       [phase : {"down", "idle", "dispatching", "claimed", "written", "failed", "finishing"},
        event : Events \cup {NoEvent}, cursor : 0..lastCursor]]
  /\ scheduled \in BOOLEAN
  /\ stream.state \in ReadyStates /\ stream.cursor \in 0..lastCursor /\ stream.batch \in Seq(feed)
  /\ {stale, view, delivered} \subseteq SUBSET Events
  /\ faults \in 0..MaxFaults

(* The feed has each processed event exactly once, whatever was rolled      *)
(* back, claimed by two workers in turn, or projected by a rebuild first;   *)
(* and nothing is pending twice or both pending and processed.              *)
FeedIsProcessed ==
  /\ {f.event : f \in feed} = processed
  /\ \A f, g \in feed : f.cursor = g.cursor \/ f.event = g.event => f = g
  /\ IsInjective(ready \o delayed)
  /\ Pending \cap processed = {}

(* Nobody is notified twice of one source (FR-026), however often it is     *)
(* dispatched and rebuilt; a source that was processed has notified, and    *)
(* the outbox announces a notification if and only if it was made.          *)
NotifiedOnce ==
  \A s \in Sources :
    /\ notified[s] = (IF Notification(s) \in Committed THEN 1 ELSE 0)
    /\ s \in Notifying /\ Change(s) \in projected \cup processed => notified[s] = 1

(* Every event that can be projected eventually is, past workers that die,  *)
(* transactions that fail and an event that fails for ever.                 *)
BacklogDrains ==
  \A e \in Events \ {Change(s) : s \in Poison} : e \in Committed ~> e \in processed

(* Again and again the page shows every committed change the user may see,  *)
(* also those whose event is never projected or whose cursor the stream has *)
(* passed, and past fetches that fail; unless the EventSource gives up and  *)
(* is never renewed.                                                       *)
ViewCatchesUp ==
  \/ []<>({Change(s) : s \in Visible} \cap Committed \subseteq view)
  \/ <>[](stream.state = "closed")

(* Outbox, workers, feed and stream are one EventDelivery: a committed event *)
(* waits until it is in the feed, under a number of its own, whatever       *)
(* workers fail or a rebuild projects first; a notification is announced    *)
(* once; and over all the connections of one EventSource the page is given  *)
(* no event twice and none out of order (a new one starts over).           *)
Delivery == INSTANCE EventDelivery WITH
  waiting <- Pending, position <- stream.cursor, received <- delivered

ImplementsDelivery == Delivery!Spec
=============================================================================
