------------------------ MODULE WorkspaceHistory ------------------------
(***************************************************************************)
(* What a task workspace promises to the people who share it: one line of  *)
(* versions that only grows at its end, and at any time at most one device *)
(* that may extend it.  The right to write is granted, taken over and      *)
(* withdrawn; a workspace that is closed (frozen with its completed task,   *)
(* archived, deleted) has no writer and takes no version.                   *)
(***************************************************************************)
EXTENDS Sequences

CONSTANTS Devices, Contents, NoDevice

VARIABLES
  history,   \* the published versions, oldest first
  writer,    \* the device that may publish the next one, or NoDevice
  open       \* the workspace takes versions

historyVars == <<history, writer, open>>

Grant(d) ==
  /\ open
  /\ writer' = d
  /\ UNCHANGED <<history, open>>

Withdraw ==
  /\ writer' = NoDevice
  /\ UNCHANGED <<history, open>>

Publish(c) ==
  /\ open
  /\ writer # NoDevice
  /\ history' = Append(history, [device |-> writer, content |-> c])
  /\ UNCHANGED <<writer, open>>

Close ==
  /\ open' = FALSE
  /\ writer' = NoDevice
  /\ UNCHANGED history

Reopen ==
  /\ ~open
  /\ open' = TRUE
  /\ UNCHANGED <<history, writer>>

Init ==
  /\ history = <<>>
  /\ writer = NoDevice
  /\ open = TRUE

Next ==
  \/ \E d \in Devices : Grant(d)
  \/ Withdraw
  \/ \E c \in Contents : Publish(c)
  \/ Close
  \/ Reopen

Spec == Init /\ [][Next]_historyVars
=============================================================================
