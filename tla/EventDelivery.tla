-------------------------- MODULE EventDelivery --------------------------
(***************************************************************************)
(* What the outbox, its workers and the feed promise together to those who *)
(* follow a project: a change that is committed waits until it is          *)
(* published, and is published once, under a number no other event has; if *)
(* it notifies, its notification is announced once, by then at the latest; *)
(* and a reader is given published events only, each at most once and in   *)
(* the order of their numbers, until it starts over from the first.        *)
(*                                                                         *)
(* It is no promise that a reader is given all of them: an event may be    *)
(* published under a number the reader is past.                            *)
(***************************************************************************)
EXTENDS Naturals

CONSTANTS Sources, Notifying, Visible

VARIABLES
  waiting,    \* events committed and not published
  feed,       \* the published events, with their numbers
  position,   \* the number of the last event the reader was given
  received    \* the events the reader was given since it started

deliveryVars == <<waiting, feed, position, received>>

Change(s) == <<s, "change">>
Notification(s) == <<s, "notification">>

Known == waiting \cup {f.event : f \in feed}

(* The notifications that are due when the changes E are looked at.        *)
Due(E) ==
  {Notification(s) :
     s \in {t \in Notifying : Change(t) \in E /\ Notification(t) \notin Known}}

Init == waiting = {} /\ feed = {} /\ position = 0 /\ received = {}

(* A change is committed.                                                  *)
Record(s) ==
  /\ Change(s) \notin Known
  /\ waiting' = waiting \cup {Change(s)}
  /\ UNCHANGED <<feed, position, received>>

(* An event is published, and the notification announced that it is due.   *)
Publish(e) ==
  /\ e \in waiting
  /\ waiting' = (waiting \ {e}) \cup Due({e})
  /\ \E f \in feed' :
       /\ f.event = e
       /\ feed' = feed \cup {f}
       /\ \A g \in feed : g.cursor # f.cursor
  /\ UNCHANGED <<position, received>>

(* All notifications that are due are announced at once.                   *)
Announce ==
  /\ waiting' = waiting \cup Due(Known)
  /\ UNCHANGED <<feed, position, received>>

(* The reader is given an event with a higher number, not given before.    *)
Receive(f) ==
  /\ f.event[1] \in Visible
  /\ f.cursor > position
  /\ f.event \notin received
  /\ position' = f.cursor
  /\ received' = received \cup {f.event}
  /\ UNCHANGED <<waiting, feed>>

(* The reader starts over, from the first event.                           *)
StartOver ==
  /\ position' = 0
  /\ received' = {}
  /\ UNCHANGED <<waiting, feed>>

Next ==
  \/ \E s \in Sources : Record(s)
  \/ \E e \in waiting : Publish(e)
  \/ Announce
  \/ \E f \in feed : Receive(f)
  \/ StartOver

Spec == Init /\ [][Next]_deliveryVars
=============================================================================
