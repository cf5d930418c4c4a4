----------------------- MODULE MaterializationProofs -----------------------
(***************************************************************************)
(* For any number of paths, contents, versions, edits and faults: the      *)
(* recovery directory is empty when no journal leads to it, a rollback     *)
(* restores what the user left alone, an edit made between commands is     *)
(* never lost, and the state is written clean only when the files are the  *)
(* base.  The invariant says of a pending journal what its plan means, and *)
(* of each path what the command and a recovery can still rely on.         *)
(***************************************************************************)
EXTENDS Materialization, TLAPS

\* A journal is pending.
Under == journal # NoJournal

\* Every base, of the state, of the journal and before it, is a version of the
\* server.
Recorded ==
  /\ state.version <= Len(history) /\ state.base = VersionOf(state.version)
  /\ Under =>
       /\ journal.prior.version <= Len(history)
       /\ journal.prior.base = VersionOf(journal.prior.version)
       /\ journal.version <= Len(history)
       /\ journal.target = VersionOf(journal.version)

\* A command that runs has a journal; the recovery directory is empty when
\* there is none, and when it is about to be removed.
Swept ==
  /\ pc # "idle" => Under
  /\ ~Under \/ pc = "clear" => backups = NoFiles

\* The plan, which was made of the files as they were before: what it has for
\* a path tells whether there was a file, and whether it was the base's; what it
\* leaves out already is the target's or is not managed; what is moved out of
\* the way is a file it found.
PlanMeans ==
  Under =>
    /\ journal.applied \subseteq DOMAIN Operations /\ DOMAIN Operations \subseteq Paths
    /\ \A x \in DOMAIN Operations :
         /\ Operations[x].existed <=> before[x] # Absent
         /\ before[x] # Absent /\ ~Operations[x].preserve => before[x] = journal.prior.base[x]
    /\ \A x \in Paths \ DOMAIN Operations :
         \/ before[x] = journal.target[x]
         \/ journal.prior.base[x] = Absent /\ journal.target[x] = Absent
    /\ \A x \in Paths : backups[x] # Absent => x \in DOMAIN Operations /\ before[x] # Absent

\* Neither the command nor its recovery touches what the plan leaves out.
LeftAlone ==
  Under => \A x \in Paths \ (touched \cup DOMAIN Operations) : files[x] = before[x]

\* The command applies its operations: one is at hand, others wait.
Applying == pc \in {"apply", "check", "rename", "mark"}
AtHand == IF pc = "apply" THEN {} ELSE {current}
Waiting == Pending \ AtHand

\* Then the state is still the one before, nothing that waits has been moved,
\* and each applied path is the target's, if the user left it alone.
Underway ==
  Applying =>
    /\ state = journal.prior
    /\ pc # "apply" => current \in Pending
    /\ \A x \in Waiting : backups[x] = Absent
    /\ \A x \in Paths \ touched :
         /\ x \in Waiting => files[x] = before[x]
         /\ x \in journal.applied => files[x] = journal.target[x]

\* The path at hand: its file was moved out of the way if it had one, and
\* nothing else has come in its place.
InHand ==
  pc \in {"check", "rename", "mark"} =>
    /\ before[current] # Absent => backups[current] # Absent
    /\ pc = "rename" => journal.target[current] # Absent
    /\ current \notin touched =>
         files[current] = IF pc = "mark" THEN journal.target[current] ELSE Absent

\* The file as it was is in the recovery directory, or in its place.
Restorable(x) == \/ backups[x] = before[x]
                 \/ backups[x] = Absent /\ files[x] = before[x]

\* Unless the state says that the journal is committed, everything the user
\* left alone can be restored, and nothing has been given up.
CanUndo ==
  Under /\ ~Committed =>
    /\ \A x \in Paths \ touched : Restorable(x)
    /\ pc # "preserve"
    /\ pc \in {"sweep", "clear"} => backups = NoFiles

\* What a rollback has been through is restored.
Undoing ==
  pc = "restore" =>
    /\ ~Committed
    /\ todo \subseteq DOMAIN Operations
    /\ \A x \in Paths \ todo :
         /\ backups[x] = Absent
         /\ x \notin touched => files[x] = before[x]

\* Conflict copies are made before the recovery directory is removed.
NothingToKeep == pc = "sweep" => Preserved = {}

\* A content that no materialization can take away.
Permanent(x, c) == \/ <<x, c>> \in copies
                   \/ \E v \in 1..Len(history) : history[v][x] = c

\* An edit made while no journal was pending is permanent, or is in its file;
\* under a journal, it is then what the plan found, moved out of the way or not.
EditsHeld ==
  \A e \in edits : e.during = "no journal" =>
    \/ Permanent(e.path, e.content)
    \/ ~Under /\ files[e.path] = e.content
    \/ /\ Under /\ e.content = before[e.path]
       /\ \/ backups[e.path] = e.content
          \/ backups[e.path] = Absent /\ files[e.path] = e.content

Inv == /\ TypeOK /\ Recorded /\ Swept /\ PlanMeans /\ LeftAlone /\ Underway /\ InHand
       /\ CanUndo /\ Undoing /\ NothingToKeep /\ EditsHeld

-----------------------------------------------------------------------------
\* A journal, field by field.
LEMMA JournalFields ==
  ASSUME NEW j \in Journal
  PROVE  /\ j # NoJournal
         /\ j.version \in 0..MaxVersion /\ j.target \in Manifest /\ j.prior \in State
         /\ DOMAIN j.operations \subseteq Paths
         /\ \A p \in DOMAIN j.operations : j.operations[p] \in Operation
         /\ j.applied \subseteq Paths
  BY NoJournalAssumption DEF Journal

\* A plan is a journal's operations.
LEMMA PlanType ==
  ASSUME TypeOK, NEW target \in Manifest
  PROVE  /\ Plan(target) \in [ToChange(target) -> Operation]
         /\ ToChange(target) \subseteq Paths
  BY DEF Plan, ToChange, Managed, Operation, TypeOK

\* What the server has as a version is a manifest.
LEMMA VersionType ==
  ASSUME TypeOK, NEW v \in 0..Len(history)
  PROVE  VersionOf(v) \in Manifest /\ v \in 0..MaxVersion
  BY BoundsAssumption DEF TypeOK, VersionOf, NoFiles, Manifest, File

\* The journal a materialization begins with.
LEMMA Begun ==
  ASSUME TypeOK, NEW v \in 0..Len(history), Begin(v)
  PROVE  /\ journal' \in Journal
         /\ journal'.version = v /\ journal'.target = VersionOf(v) /\ journal'.prior = state
         /\ journal'.operations = Plan(VersionOf(v)) /\ journal'.applied = {}
<1>1. PICK t : t = VersionOf(v)
  OBVIOUS
<1>2. t \in Manifest /\ v \in 0..MaxVersion /\ state \in State
  BY <1>1, VersionType DEF TypeOK
<1>3. PICK o : o = Plan(t)
  OBVIOUS
<1>4. o \in UNION {[ps -> Operation] : ps \in SUBSET Paths}
  BY <1>2, <1>3, PlanType
<1>5. journal' = [version |-> v, target |-> t, prior |-> state, operations |-> o,
                  applied |-> {}]
  BY <1>1, <1>3 DEF Begin
<1>6. journal' \in Journal
  BY <1>2, <1>4, <1>5 DEF Journal
<1> QED
  BY <1>1, <1>3, <1>5, <1>6

\* An operation marked as applied changes nothing else of the journal.
LEMMA Marked ==
  ASSUME journal \in Journal, MarkApplied, current \in Paths
  PROVE  /\ journal' \in Journal
         /\ journal'.version = journal.version /\ journal'.target = journal.target
         /\ journal'.prior = journal.prior /\ journal'.operations = journal.operations
         /\ journal'.applied = journal.applied \cup {current}
<1>1. journal.applied \cup {current} \subseteq Paths
  BY JournalFields
<1> QED
  BY <1>1 DEF MarkApplied, Journal

\* What an edit by the user changes and leaves alone,
LEMMA UserLeaves ==
  ASSUME NEW p \in Paths, NEW c \in File, UserEdit(p, c)
  PROVE  /\ UNCHANGED <<history, backups, copies, state, journal, processVars, before, faults>>
         /\ files' = [files EXCEPT ![p] = c] /\ touched' = touched \cup {p}
         /\ edited' = edited + 1 /\ edited < MaxEdits
<1>1. UNCHANGED <<history, backups, copies, state, journal, processVars, before, faults>>
  BY Zenon DEF UserEdit
<1>2. /\ files' = [files EXCEPT ![p] = c] /\ touched' = touched \cup {p}
      /\ edited' = edited + 1 /\ edited < MaxEdits
  BY Zenon DEF UserEdit
<1> QED
  BY <1>1, <1>2

\* and which edits are remembered after it.
LEMMA WhatIsEdited ==
  ASSUME TypeOK, NEW p \in Paths, NEW c \in File, UserEdit(p, c), NEW e \in edits'
  PROVE  \/ e \in edits /\ (e.path # p \/ e.content # files[p])
         \/ /\ e \in Edit /\ e.path = p /\ e.content = c
            /\ e.during = "no journal" => journal = NoJournal
<1>1. PICK d : d = IF pc # "idle" THEN "command"
                   ELSE IF journal = NoJournal THEN "no journal" ELSE "pending journal"
  OBVIOUS
<1>2. /\ d \in {"no journal", "pending journal", "command"}
      /\ d = "no journal" => journal = NoJournal
  BY <1>1
<1>3. \/ e \in edits /\ (e.path # p \/ e.content # files[p])
      \/ c # Absent /\ e = [path |-> p, content |-> c, during |-> d]
  <2>1. edits' = {x \in edits : x.path # p \/ x.content # files[p]} \cup
                   IF c = Absent THEN {} ELSE {[path |-> p, content |-> c, during |-> d]}
    BY <1>1, Zenon DEF UserEdit
  <2> QED
    BY <2>1
<1>4. ASSUME c # Absent, e = [path |-> p, content |-> c, during |-> d]
      PROVE  /\ e \in Edit /\ e.path = p /\ e.content = c
             /\ e.during = "no journal" => journal = NoJournal
  <2>1. c \in Contents
    BY <1>4 DEF File
  <2>2. e \in Edit
    BY <1>2, <1>4, <2>1 DEF Edit
  <2>3. e.path = p /\ e.content = c /\ e.during = d
    BY <1>4
  <2> QED
    BY <1>2, <2>2, <2>3
<1> QED
  BY <1>3, <1>4

\* The type invariant is kept by every step.
LEMMA TypeStep == TypeOK /\ Swept /\ PlanMeans /\ Underway /\ [Next]_vars => TypeOK'
<1> SUFFICES ASSUME TypeOK, Swept, PlanMeans, Underway, [Next]_vars
             PROVE  TypeOK'
  OBVIOUS
<1> USE DEF TypeOK, localVars, processVars, ghostVars
<1>0. Absent \in File /\ NoFiles \in Manifest /\ MaxEdits \in Nat /\ MaxFaults \in Nat
      /\ MaxVersion \in Nat
  BY BoundsAssumption DEF File, NoFiles, Manifest
<1>1. ASSUME NEW v \in 0..Len(history), Begin(v)
      PROVE  TypeOK'
  <2> QED
    BY <1>1, Begun DEF Begin
<1>2. ASSUME NEW p \in Paths, Backup(p) \/ SkipBackup(p)
      PROVE  TypeOK'
  BY <1>0, <1>2 DEF Backup, SkipBackup, Manifest
<1>3. CASE Check \/ EndPreserve \/ RecoverAtStart
  BY <1>3 DEF Check, EndPreserve, RecoverAtStart
<1>4. CASE Rename
  <2>1. current \in Paths /\ journal \in Journal
    BY <1>4 DEF Rename, Swept, Under, Underway, Applying, PlanMeans, Pending
  <2> QED
    BY <1>4, <2>1, JournalFields DEF Rename, Manifest
<1>5. CASE MarkApplied
  <2>1. current \in Paths /\ journal \in Journal
    BY <1>5 DEF MarkApplied, Swept, Under, Underway, Applying, PlanMeans, Pending
  <2> QED
    BY <1>5, <2>1, Marked DEF MarkApplied
<1>6. CASE WriteState
  <2>1. journal \in Journal
    BY <1>6 DEF WriteState, Swept, Under
  <2> QED
    BY <1>6, <2>1, JournalFields DEF WriteState, State
<1>7. ASSUME NEW p \in Paths, PreserveConflict(p)
      PROVE  TypeOK'
  BY <1>0, <1>7 DEF PreserveConflict, Manifest, Preserved, File
<1>8. CASE RemoveRecovery \/ ClearJournal
  BY <1>0, <1>8 DEF RemoveRecovery, NoBackups, ClearJournal
<1>9. CASE Recover
  <2>1. journal \in Journal
    BY <1>9 DEF Recover, Swept, Under
  <2> QED
    BY <1>9, <2>1, JournalFields DEF Recover, AllOperations, Operations
<1>10. ASSUME NEW p \in Paths, Restore(p)
       PROVE  TypeOK'
  BY <1>0, <1>10 DEF Restore, Manifest
<1>11. CASE WriteRecoveryState
  <2>1. journal \in Journal
    BY <1>11 DEF WriteRecoveryState, Swept, Under
  <2>2. journal.prior \in State
    BY <2>1, JournalFields
  <2>3. state' \in State
    BY <1>11, <2>2 DEF WriteRecoveryState, State
  <2> QED
    BY <1>11, <2>3 DEF WriteRecoveryState
<1>12. CASE Fail \/ Crash
  BY <1>0, <1>12 DEF Fail, Crash
<1>13. ASSUME NEW p \in Paths, NEW c \in File, UserEdit(p, c)
       PROVE  TypeOK'
  <2>1. files' \in Manifest /\ edited' \in 0..MaxEdits
    BY <1>0, <1>13, UserLeaves DEF Manifest
  <2>2. edits' \subseteq Edit
    BY <1>13, WhatIsEdited
  <2> QED
    BY <1>13, <2>1, <2>2, UserLeaves
<1>14. ASSUME NEW m \in Remote, RemoteCommit(m)
       PROVE  TypeOK'
  <2>1. m \in Manifest
    BY ManifestAssumption DEF Manifest, File
  <2> QED
    BY <1>0, <1>14, <2>1 DEF RemoteCommit
<1>15. CASE PublishFiles
  <2>1. history' \in Seq(Manifest) /\ Len(history') \in 0..MaxVersion
    BY <1>0, <1>15 DEF PublishFiles
  <2>2. state' \in State
    BY <1>0, <1>15 DEF PublishFiles, State
  <2> QED
    BY <1>15, <2>1, <2>2 DEF PublishFiles
<1>16. CASE Sync \/ UseLocal
  <2>1. CASE state' = [state EXCEPT !.status = "conflict"] /\ Sync /\ ~PublishFiles
    BY <2>1 DEF Sync, State
  <2> QED
    BY <1>15, <1>16, <2>1 DEF Sync, UseLocal
<1>17. CASE UNCHANGED vars
  BY <1>17 DEF vars
<1> QED
  BY <1>1, <1>2, <1>3, <1>4, <1>5, <1>6, <1>7, <1>8, <1>9, <1>10, <1>11, <1>12, <1>13, <1>14,
     <1>16, <1>17 DEF Next, Command, Materialize, RecoveryStep

\* The server's versions stay what they are.
LEMMA HistoryKept ==
  ASSUME TypeOK, [Next]_vars
  PROVE  /\ Len(history) <= Len(history') /\ Len(history) \in Nat /\ Len(history') \in Nat
         /\ \A v \in 1..Len(history) : history'[v] = history[v]
         /\ \A v \in 0..Len(history) : VersionOf(v)' = VersionOf(v)
<1>1. history' = history \/ \E m \in Manifest : history' = Append(history, m)
  <2>1. ASSUME NEW m \in Remote, RemoteCommit(m)
        PROVE  m \in Manifest /\ history' = Append(history, m)
    BY <2>1, ManifestAssumption DEF RemoteCommit, Manifest, File
  <2>2. CASE PublishFiles
    BY <2>2 DEF PublishFiles, TypeOK
  <2>3. CASE Sync /\ ~PublishFiles
    BY <2>3 DEF Sync
  <2>4. CASE Command
    BY <2>4 DEF Command, Materialize, RecoveryStep, Backup, SkipBackup, Check, Rename,
       MarkApplied, WriteState, PreserveConflict, EndPreserve, RemoveRecovery, ClearJournal,
       RecoverAtStart, Recover, Restore, WriteRecoveryState
  <2>5. CASE Fail \/ Crash
    BY <2>5 DEF Fail, Crash
  <2>6. CASE (\E v \in 0..Len(history) : Begin(v)) \/ UNCHANGED vars
    BY <2>6 DEF Begin, vars
  <2>7. ASSUME NEW p \in Paths, NEW c \in File, UserEdit(p, c)
        PROVE  UNCHANGED history
    BY <2>7, Zenon DEF UserEdit
  <2> QED
    BY <2>1, <2>2, <2>3, <2>4, <2>5, <2>6, <2>7 DEF Next, UseLocal
<1>2. history \in Seq(Manifest)
  BY DEF TypeOK
<1> QED
  BY <1>1, <1>2 DEF VersionOf

\* Swept is kept by every step.
LEMMA SweptStep ==
  ASSUME TypeOK, Swept, Underway, PlanMeans, [Next]_vars
  PROVE  Swept'
<1> USE DEF Swept, Under, localVars, processVars, ghostVars
<1>1. CASE \E v \in 0..Len(history) : Begin(v)
  BY <1>1, Begun, JournalFields DEF Begin
<1>2. CASE MarkApplied
  <2>1. current \in Paths /\ journal \in Journal
    BY <1>2 DEF MarkApplied, Underway, Applying, PlanMeans, Pending, TypeOK
  <2> QED
    BY <1>2, <2>1, Marked, JournalFields DEF MarkApplied
<1>3. CASE \E p \in Paths : Backup(p) \/ SkipBackup(p)
  BY <1>3 DEF Backup, SkipBackup
<1>4. CASE Check \/ Rename \/ WriteState \/ RemoveRecovery \/ ClearJournal \/ EndPreserve
  BY <1>4 DEF Check, Rename, WriteState, RemoveRecovery, NoBackups, ClearJournal, EndPreserve
<1>5. CASE \E p \in Paths : PreserveConflict(p) \/ Restore(p)
  BY <1>5 DEF PreserveConflict, Restore
<1>6. CASE RecoverAtStart \/ Recover \/ WriteRecoveryState \/ Fail \/ Crash
  BY <1>6 DEF RecoverAtStart, Recover, WriteRecoveryState, Fail, Crash
<1>7. ASSUME NEW p \in Paths, NEW c \in File, UserEdit(p, c)
      PROVE  Swept'
  BY <1>7, UserLeaves
<1>8. CASE (\E m \in Remote : RemoteCommit(m)) \/ Sync \/ UseLocal \/ UNCHANGED vars
  BY <1>8 DEF RemoteCommit, Sync, UseLocal, PublishFiles, vars
<1> QED
  BY <1>1, <1>2, <1>3, <1>4, <1>5, <1>6, <1>7, <1>8 DEF Next, Command, Materialize, RecoveryStep

\* Recorded is kept by every step: a rollback goes back to a state that was
\* recorded, and a publication records the version it makes.
LEMMA RecordedStep ==
  ASSUME TypeOK, Recorded, Swept, Underway, PlanMeans, [Next]_vars
  PROVE  Recorded'
<1> USE DEF Recorded, Under, localVars, processVars, ghostVars
<1>0. /\ Len(history) <= Len(history') /\ Len(history) \in Nat /\ Len(history') \in Nat
      /\ \A v \in 0..Len(history) : VersionOf(v)' = VersionOf(v)
      /\ state \in State /\ MaxVersion \in Nat
  BY HistoryKept, BoundsAssumption DEF TypeOK
<1>1. \A v \in 0..MaxVersion : v <= Len(history) =>
        v <= Len(history') /\ VersionOf(v)' = VersionOf(v)
  BY <1>0
<1>10. /\ state.version \in 0..MaxVersion
       /\ Under => /\ journal.version \in 0..MaxVersion
                   /\ journal.prior.version \in 0..MaxVersion
  BY JournalFields DEF TypeOK, State
<1>11. CASE UNCHANGED <<state, journal>>
  BY <1>1, <1>10, <1>11 DEF VersionOf
<1>2. ASSUME NEW v \in 0..Len(history), Begin(v)
      PROVE  Recorded'
  <2>1. UNCHANGED <<history, state>>
    BY <1>2 DEF Begin
  <2> QED
    BY <1>0, <1>2, <2>1, Begun DEF VersionOf
<1>3. CASE MarkApplied
  <2>1. current \in Paths /\ journal \in Journal
    BY <1>3 DEF MarkApplied, Swept, Underway, Applying, PlanMeans, Pending, TypeOK
  <2>2. UNCHANGED <<history, state>>
    BY <1>3 DEF MarkApplied
  <2> QED
    BY <1>3, <2>1, <2>2, Marked, JournalFields DEF VersionOf
<1>4. CASE WriteState \/ ClearJournal
  <2>1. journal \in Journal
    BY <1>4 DEF WriteState, ClearJournal, Swept, TypeOK
  <2> QED
    BY <1>4, <2>1, JournalFields DEF WriteState, ClearJournal, VersionOf
<1>5. CASE WriteRecoveryState
  <2>1. journal \in Journal
    BY <1>5 DEF WriteRecoveryState, Swept, TypeOK
  <2>2. journal.prior \in State /\ journal # NoJournal
    BY <2>1, JournalFields
  <2>3. state'.version = journal.prior.version /\ state'.base = journal.prior.base
    BY <1>5, <2>2 DEF WriteRecoveryState, State
  <2> QED
    BY <1>5, <2>2, <2>3 DEF WriteRecoveryState, VersionOf
<1>6. CASE PublishFiles
  <2>1. /\ history' = Append(history, files) /\ files \in Manifest /\ history \in Seq(Manifest)
        /\ state'.version = Len(history) + 1 /\ state'.base = files
    BY <1>6 DEF PublishFiles, TypeOK
  <2>2. state'.version <= Len(history') /\ state'.base = VersionOf(state.version)'
    BY <2>1 DEF VersionOf
  <2>3. UNCHANGED journal
    BY <1>6, Zenon DEF PublishFiles
  <2> QED
    BY <1>1, <1>10, <2>2, <2>3 DEF VersionOf
<1>7. CASE Sync /\ ~PublishFiles
  <2>1. UNCHANGED <<history, journal>> /\ state' = [state EXCEPT !.status = "conflict"]
    BY <1>7 DEF Sync
  <2> QED
    BY <1>0, <2>1 DEF State, VersionOf
<1>8. CASE \E p \in Paths : \/ Backup(p) \/ SkipBackup(p) \/ PreserveConflict(p) \/ Restore(p)
  BY <1>8, <1>11 DEF Backup, SkipBackup, PreserveConflict, Restore
<1>9. CASE \/ Check \/ Rename \/ RemoveRecovery \/ EndPreserve \/ RecoverAtStart \/ Recover \/ Fail
           \/ Crash \/ (\E m \in Remote : RemoteCommit(m)) \/ UNCHANGED vars
  BY <1>9, <1>11 DEF Check, Rename, RemoveRecovery, EndPreserve, RecoverAtStart, Recover, Fail,
     Crash, RemoteCommit, vars
<1>12. CASE \E p \in Paths, c \in File : UserEdit(p, c)
  BY <1>11, <1>12, UserLeaves
<1> QED
  BY <1>2, <1>3, <1>4, <1>5, <1>6, <1>7, <1>8, <1>9, <1>12
     DEF Next, Command, Materialize, RecoveryStep, UseLocal

\* PlanMeans is kept by every step.
LEMMA PlanStep ==
  ASSUME TypeOK, Swept, PlanMeans, Underway, [Next]_vars
  PROVE  PlanMeans'
<1> USE DEF PlanMeans, Operations, Under, localVars, processVars, ghostVars
<1>0. files \in Manifest /\ backups \in Manifest
  BY DEF TypeOK
<1>1. ASSUME UNCHANGED <<journal, before>>,
             \A x \in Paths : backups'[x] # Absent /\ journal # NoJournal =>
                backups[x] # Absent \/ (x \in DOMAIN Operations /\ before[x] # Absent)
      PROVE  PlanMeans'
  BY <1>1
<1>2. ASSUME NEW v \in 0..Len(history), Begin(v)
      PROVE  PlanMeans'
  <2>1. /\ journal = NoJournal /\ before' = files /\ UNCHANGED backups
        /\ Plan(VersionOf(v)) \in [ToChange(VersionOf(v)) -> Operation]
        /\ ToChange(VersionOf(v)) \subseteq Paths
    BY <1>2, PlanType, VersionType DEF Begin
  <2>2. PICK t : t = VersionOf(v)
    OBVIOUS
  <2>3. \A x \in ToChange(t) :
          /\ Plan(t)[x].existed <=> files[x] # Absent
          /\ files[x] # Absent /\ ~Plan(t)[x].preserve => files[x] = state.base[x]
    BY DEF Plan
  <2>4. \A x \in Paths \ ToChange(t) :
          files[x] = t[x] \/ (state.base[x] = Absent /\ t[x] = Absent)
    BY DEF ToChange, Managed
  <2>5. \A x \in Paths : backups'[x] = Absent
    BY <2>1 DEF Swept, NoFiles
  <2> QED
    BY <1>2, <2>1, <2>2, <2>3, <2>4, <2>5, Begun
<1>3. CASE MarkApplied
  <2>1. current \in DOMAIN Operations /\ current \in Paths /\ journal \in Journal
    BY <1>3 DEF MarkApplied, Swept, Underway, Applying, Pending, TypeOK
  <2> QED
    BY <1>3, <2>1, Marked, JournalFields DEF MarkApplied
<1>4. ASSUME NEW p \in Paths, Backup(p)
      PROVE  PlanMeans'
  BY <1>0, <1>1, <1>4 DEF Backup, Pending, Manifest, Swept
<1>5. ASSUME NEW p \in Paths, Restore(p) \/ PreserveConflict(p)
      PROVE  PlanMeans'
  BY <1>0, <1>1, <1>5 DEF Restore, PreserveConflict, Manifest
<1>6. CASE RemoveRecovery \/ ClearJournal
  BY <1>1, <1>6 DEF RemoveRecovery, NoBackups, NoFiles, ClearJournal
<1>7. CASE \/ Check \/ Rename \/ WriteState \/ EndPreserve \/ RecoverAtStart \/ Recover
           \/ WriteRecoveryState \/ Fail \/ Crash \/ (\E p \in Paths : SkipBackup(p))
  BY <1>1, <1>7 DEF SkipBackup, Check, Rename, WriteState, EndPreserve, RecoverAtStart, Recover,
     WriteRecoveryState, Fail, Crash
<1>8. CASE (\E m \in Remote : RemoteCommit(m)) \/ Sync \/ UseLocal \/ UNCHANGED vars
  BY <1>1, <1>8 DEF RemoteCommit, Sync, UseLocal, PublishFiles, vars
<1>9. CASE \E p \in Paths, c \in File : UserEdit(p, c)
  BY <1>1, <1>9, UserLeaves
<1> QED
  BY <1>2, <1>3, <1>4, <1>5, <1>6, <1>7, <1>8, <1>9 DEF Next, Command, Materialize, RecoveryStep

\* LeftAlone is kept by every step.
LEMMA LeftStep ==
  ASSUME TypeOK, Swept, PlanMeans, LeftAlone, Underway, Undoing, [Next]_vars
  PROVE  LeftAlone'
<1> USE DEF LeftAlone, Operations, Under, localVars, processVars, ghostVars
<1>0. files \in Manifest
  BY DEF TypeOK
<1>1. ASSUME UNCHANGED <<journal, before>>, touched \subseteq touched',
             \A x \in Paths : files'[x] = files[x] \/ x \in touched' \/ x \in DOMAIN Operations
      PROVE  LeftAlone'
  BY <1>1
<1>2. ASSUME NEW v \in 0..Len(history), Begin(v)
      PROVE  LeftAlone'
  BY <1>2 DEF Begin
<1>3. CASE MarkApplied
  <2>1. current \in Paths /\ journal \in Journal
    BY <1>3 DEF MarkApplied, Swept, Underway, Applying, Pending, TypeOK, PlanMeans
  <2> QED
    BY <1>3, <2>1, Marked, JournalFields DEF MarkApplied
<1>4. ASSUME NEW p \in Paths, Backup(p) \/ Restore(p)
      PROVE  LeftAlone'
  BY <1>0, <1>1, <1>4 DEF Backup, Restore, Pending, Manifest, Undoing
<1>5. CASE Rename
  BY <1>0, <1>1, <1>5 DEF Rename, Underway, Applying, Pending, Manifest
<1>6. CASE \/ Check \/ WriteState \/ EndPreserve \/ RemoveRecovery \/ RecoverAtStart
           \/ Recover \/ WriteRecoveryState \/ Fail \/ Crash
           \/ (\E p \in Paths : SkipBackup(p) \/ PreserveConflict(p))
  BY <1>1, <1>6 DEF SkipBackup, PreserveConflict, Check, WriteState, EndPreserve,
     RemoveRecovery, RecoverAtStart, Recover, WriteRecoveryState, Fail, Crash
<1>7. CASE ClearJournal
  BY <1>7 DEF ClearJournal
<1>8. CASE (\E m \in Remote : RemoteCommit(m)) \/ UNCHANGED vars
  BY <1>1, <1>8 DEF RemoteCommit, vars
<1>9. CASE Sync \/ UseLocal
  BY <1>9 DEF Sync, UseLocal, PublishFiles
<1>10. ASSUME NEW p \in Paths, NEW c \in File, UserEdit(p, c)
       PROVE  LeftAlone'
  BY <1>0, <1>1, <1>10, UserLeaves DEF Manifest
<1> QED
  BY <1>2, <1>3, <1>4, <1>5, <1>6, <1>7, <1>8, <1>9, <1>10
     DEF Next, Command, Materialize, RecoveryStep

\* Underway and InHand are kept by every step.
LEMMA UnderwayStep ==
  ASSUME TypeOK, Swept, PlanMeans, LeftAlone, Underway, InHand, [Next]_vars
  PROVE  Underway' /\ InHand'
<1> USE DEF Underway, InHand, Applying, AtHand, Waiting, Pending, Operations, localVars,
            processVars, ghostVars
<1>0. /\ files \in Manifest /\ backups \in Manifest
      /\ pc # "idle" => journal \in Journal
      /\ Applying => DOMAIN Operations \subseteq Paths
  BY DEF TypeOK, Swept, Under, PlanMeans
<1>1. ASSUME NEW v \in 0..Len(history), Begin(v)
      PROVE  Underway' /\ InHand'
  <2>1. /\ UNCHANGED <<files, backups, state>> /\ pc' = "apply" /\ before' = files
        /\ backups = NoFiles
    BY <1>1 DEF Begin, Swept, Under
  <2>2. DOMAIN journal'.operations \subseteq Paths
    BY <1>1, Begun, JournalFields
  <2> QED
    BY <1>1, <2>1, <2>2, Begun DEF NoFiles
<1>2. ASSUME NEW p \in Paths, Backup(p)
      PROVE  Underway' /\ InHand'
  <2>1. /\ pc = "apply" /\ p \in Pending /\ before[p] # Absent /\ Under
        /\ UNCHANGED <<journal, state, before, touched>>
    BY <1>2 DEF Backup, PlanMeans, Swept, Under
  <2>2. CASE files[p] = Absent
    BY <1>2, <2>1, <2>2 DEF Backup
  <2>3. CASE files[p] # Absent
    <3>1. /\ backups' = [backups EXCEPT ![p] = files[p]]
          /\ files' = [files EXCEPT ![p] = Absent]
          /\ pc' = "check" /\ current' = p
      BY <1>2, <2>3 DEF Backup
    <3> QED
      BY <1>0, <2>1, <2>3, <3>1 DEF Manifest
  <2> QED
    BY <2>2, <2>3
<1>3. ASSUME NEW p \in Paths, SkipBackup(p)
      PROVE  Underway' /\ InHand'
  <2>1. /\ pc = "apply" /\ p \in Pending /\ before[p] = Absent /\ pc' = "check" /\ current' = p
        /\ UNCHANGED <<journal, state, before, touched, files, backups>>
    BY <1>3 DEF SkipBackup, PlanMeans, Swept, Under
  <2> QED
    BY <2>1
<1>4. CASE Check
  BY <1>4 DEF Check
<1>5. CASE Rename
  BY <1>0, <1>5 DEF Rename, Manifest
<1>6. CASE MarkApplied
  <2>1. /\ pc = "mark" /\ pc' = "apply" /\ current \in Pending /\ current \in Paths
        /\ journal \in Journal
        /\ UNCHANGED <<state, before, touched, files, backups>>
    BY <1>0, <1>6 DEF MarkApplied
  <2> QED
    BY <1>6, <2>1, Marked
<1>7. CASE \/ WriteState \/ EndPreserve \/ RemoveRecovery \/ ClearJournal \/ RecoverAtStart
           \/ Recover \/ WriteRecoveryState \/ Fail \/ Crash \/ Sync \/ UseLocal
           \/ (\E p \in Paths : PreserveConflict(p) \/ Restore(p))
  BY <1>7 DEF WriteState, EndPreserve, RemoveRecovery, ClearJournal, RecoverAtStart, Recover,
     WriteRecoveryState, Fail, Crash, PreserveConflict, Restore, Sync, UseLocal, PublishFiles
<1>8. CASE (\E m \in Remote : RemoteCommit(m)) \/ UNCHANGED vars
  BY <1>8 DEF RemoteCommit, vars
<1>9. ASSUME NEW p \in Paths, NEW c \in File, UserEdit(p, c)
      PROVE  Underway' /\ InHand'
  BY <1>0, <1>9, UserLeaves DEF Manifest
<1> QED
  BY <1>1, <1>2, <1>3, <1>4, <1>5, <1>6, <1>7, <1>8, <1>9
     DEF Next, Command, Materialize, RecoveryStep

\* CanUndo and Undoing are kept by every step; after use_local has taken the
\* files of a pending journal for the user's, none counts as left alone.
LEMMA UndoStep ==
  ASSUME TypeOK, Swept, PlanMeans, LeftAlone, Underway, InHand, CanUndo, Undoing, [Next]_vars
  PROVE  CanUndo' /\ Undoing'
<1> USE DEF CanUndo, Undoing, Restorable, Committed, Under, localVars, processVars, ghostVars
<1>0. /\ files \in Manifest /\ backups \in Manifest
      /\ pc # "idle" => journal \in Journal
  BY DEF TypeOK, Swept
<1>1. ASSUME NEW v \in 0..Len(history), Begin(v)
      PROVE  CanUndo' /\ Undoing'
  BY <1>0, <1>1 DEF Begin, Swept, NoFiles
<1>2. ASSUME NEW p \in Paths, Backup(p)
      PROVE  CanUndo' /\ Undoing'
  <2>1. /\ pc = "apply" /\ before[p] # Absent /\ backups[p] = Absent
        /\ UNCHANGED <<journal, state, before, touched>>
    BY <1>2 DEF Backup, PlanMeans, Swept, Underway, Waiting, AtHand, Applying, Pending
  <2> QED
    BY <1>0, <1>2, <2>1 DEF Backup, Manifest
<1>3. CASE Rename
  BY <1>0, <1>3 DEF Rename, InHand, Manifest
<1>4. CASE MarkApplied
  <2>1. /\ pc' = "apply" /\ current \in Paths /\ journal \in Journal
        /\ UNCHANGED <<state, before, touched, files, backups>> /\ Under /\ pc = "mark"
    BY <1>0, <1>4 DEF MarkApplied, Underway, Applying, Pending, PlanMeans, Swept
  <2> QED
    BY <1>4, <2>1, Marked
<1>5. CASE \/ Check \/ WriteState \/ EndPreserve \/ ClearJournal \/ RecoverAtStart \/ Fail \/ Crash
           \/ (\E p \in Paths : SkipBackup(p))
  BY <1>0, <1>5, JournalFields DEF SkipBackup, Check, WriteState, EndPreserve, ClearJournal,
     RecoverAtStart, Fail, Crash, Swept
<1>6. ASSUME NEW p \in Paths, PreserveConflict(p)
      PROVE  CanUndo' /\ Undoing'
  BY <1>6 DEF PreserveConflict, Swept
<1>7. CASE RemoveRecovery
  BY <1>7 DEF RemoveRecovery, NoBackups, Swept
<1>8. CASE Recover
  BY <1>0, <1>8 DEF Recover, AllOperations, Operations, Swept, PlanMeans, LeftAlone
<1>9. ASSUME NEW p \in Paths, Restore(p)
      PROVE  CanUndo' /\ Undoing'
  <2>1. /\ pc = "restore" /\ pc' = pc /\ Under /\ ~Committed
        /\ p \in DOMAIN Operations /\ p \in todo
        /\ UNCHANGED <<journal, state, before, touched>> /\ todo' = todo \ {p}
        /\ Operations[p].existed <=> before[p] # Absent
        /\ backups' = [backups EXCEPT ![p] = Absent]
        /\ files' = IF backups[p] # Absent \/ ~Operations[p].existed
                      THEN [files EXCEPT ![p] = backups[p]] ELSE files
    BY <1>9 DEF Restore, Swept, PlanMeans
  <2>2. p \notin touched => files'[p] = before[p]
    BY <1>0, <2>1 DEF Manifest
  <2>3. \A x \in Paths \ {p} : files'[x] = files[x] /\ backups'[x] = backups[x]
    BY <1>0, <2>1 DEF Manifest
  <2>4. backups'[p] = Absent
    BY <1>0, <2>1 DEF Manifest
  <2> QED
    BY <2>1, <2>2, <2>3, <2>4 DEF Operations
<1>10. CASE WriteRecoveryState
  <2>1. /\ pc' = "sweep" /\ UNCHANGED <<files, backups, journal, before, touched>>
        /\ \A x \in Paths : /\ backups[x] = Absent
                            /\ x \notin touched => files[x] = before[x]
    BY <1>10 DEF WriteRecoveryState
  <2>2. backups = NoFiles
    BY <1>0, <2>1 DEF Manifest, NoFiles
  <2> QED
    BY <2>1, <2>2
<1>11. CASE (\E m \in Remote : RemoteCommit(m)) \/ UNCHANGED vars
  BY <1>11 DEF RemoteCommit, vars, Operations
<1>12. CASE Sync \/ UseLocal
  BY <1>12 DEF Sync, UseLocal, PublishFiles
<1>13. ASSUME NEW p \in Paths, NEW c \in File, UserEdit(p, c)
       PROVE  CanUndo' /\ Undoing'
  BY <1>0, <1>13, UserLeaves DEF Manifest, Operations
<1> QED
  BY <1>1, <1>2, <1>3, <1>4, <1>5, <1>6, <1>7, <1>8, <1>9, <1>10, <1>11, <1>12, <1>13
     DEF Next, Command, Materialize, RecoveryStep

\* NothingToKeep is kept by every step.
LEMMA NothingStep ==
  ASSUME TypeOK, Undoing, NothingToKeep, PlanMeans, Swept, [Next]_vars
  PROVE  NothingToKeep'
<1> USE DEF NothingToKeep, Preserved, Operations, localVars, processVars, ghostVars
<1>1. CASE Materialize \/ Fail \/ Crash \/ Sync \/ UseLocal \/ (\E v \in 0..Len(history) : Begin(v))
  BY <1>1 DEF Materialize, Backup, SkipBackup, Check, Rename,
     MarkApplied, WriteState, PreserveConflict, EndPreserve, RemoveRecovery, ClearJournal, Fail,
     Crash, Sync, UseLocal, PublishFiles, Begin
<1>2. CASE RecoverAtStart \/ Recover \/ \E p \in Paths : Restore(p)
  BY <1>2 DEF RecoverAtStart, Recover, Restore
<1>3. CASE WriteRecoveryState
  BY <1>3 DEF WriteRecoveryState, Undoing, PlanMeans, Swept, Under
<1>4. CASE (\E m \in Remote : RemoteCommit(m)) \/ UNCHANGED vars
  BY <1>4 DEF RemoteCommit, vars
<1>5. CASE \E p \in Paths, c \in File : UserEdit(p, c)
  BY <1>5, UserLeaves
<1> QED
  BY <1>1, <1>2, <1>3, <1>4, <1>5 DEF Next, Command, RecoveryStep

\* What is permanent stays so,
LEMMA PermanentStays ==
  ASSUME TypeOK, [Next]_vars, NEW x, NEW c, Permanent(x, c), copies \subseteq copies'
  PROVE  Permanent(x, c)'
<1>1. /\ Len(history) <= Len(history') /\ Len(history) \in Nat /\ Len(history') \in Nat
      /\ \A v \in 1..Len(history) : history'[v] = history[v]
  BY HistoryKept
<1>2. ASSUME NEW v \in 1..Len(history), history[v][x] = c
      PROVE  v \in 1..Len(history') /\ history'[v][x] = c
  BY <1>1, <1>2
<1> QED
  BY <1>2 DEF Permanent

\* and what a plan found equal to the base is, being in a version.
LEMMA BaseIsPermanent ==
  ASSUME TypeOK, Recorded, PlanMeans, journal \in Journal, Preserved = {},
         NEW x \in Paths, before[x] # Absent, backups[x] # Absent
  PROVE  Permanent(x, before[x])
<1>1. journal # NoJournal /\ journal.prior \in State
  BY JournalFields
<1>2. before[x] = journal.prior.base[x]
  BY <1>1 DEF PlanMeans, Preserved, Under
<1>3. /\ journal.prior.base = VersionOf(journal.prior.version)
      /\ journal.prior.version <= Len(history)
  BY <1>1 DEF Recorded, Under
<1>4. journal.prior.version \in Nat
  BY <1>1, BoundsAssumption DEF State
<1>5. PICK v : v = journal.prior.version
  OBVIOUS
<1>6. v # 0 /\ before[x] = history[v][x]
  BY <1>2, <1>3, <1>5 DEF VersionOf, NoFiles
<1>7. v \in 1..Len(history)
  BY <1>3, <1>4, <1>5, <1>6 DEF TypeOK
<1> QED
  BY <1>6, <1>7 DEF Permanent

\* EditsHeld is kept by every step.
LEMMA EditsStep ==
  ASSUME TypeOK, Recorded, Swept, PlanMeans, Underway, InHand, Undoing, NothingToKeep, EditsHeld,
         [Next]_vars
  PROVE  EditsHeld'
<1> USE DEF Under, localVars, processVars, ghostVars
<1>0. /\ files \in Manifest /\ backups \in Manifest /\ before \in Manifest
      /\ pc # "idle" => journal \in Journal
      /\ \A e \in edits : e.path \in Paths /\ e.content \in Contents /\ e.content # Absent
  BY AbsentAssumption DEF TypeOK, Swept, Edit
<1>1. \A x, c : Permanent(x, c) /\ copies \subseteq copies' => Permanent(x, c)'
  BY PermanentStays
<1>2. ASSUME UNCHANGED <<journal, before, edits, files, backups, copies>>
      PROVE  EditsHeld'
  BY <1>1, <1>2 DEF EditsHeld
<1>3. ASSUME NEW v \in 0..Len(history), Begin(v)
      PROVE  EditsHeld'
  <2>1. /\ journal = NoJournal /\ backups = NoFiles /\ before' = files
        /\ UNCHANGED <<edits, files, backups, copies>>
    BY <1>3 DEF Begin, Swept
  <2>2. journal' # NoJournal
    BY <1>3, Begun, JournalFields
  <2> QED
    BY <1>0, <1>1, <2>1, <2>2 DEF EditsHeld, NoFiles
<1>4. ASSUME NEW p \in Paths, Backup(p)
      PROVE  EditsHeld'
  <2>1. /\ backups[p] = Absent /\ UNCHANGED <<journal, before, edits, copies>>
        /\ journal # NoJournal
    BY <1>4 DEF Backup, Swept, Underway, Waiting, AtHand, Applying, Pending
  <2>2. CASE UNCHANGED <<files, backups>>
    BY <1>2, <2>1, <2>2
  <2>3. CASE /\ backups' = [backups EXCEPT ![p] = files[p]]
             /\ files' = [files EXCEPT ![p] = Absent]
    BY <1>0, <1>1, <2>1, <2>3 DEF EditsHeld, Manifest
  <2> QED
    BY <1>4, <2>2, <2>3 DEF Backup
<1>5. CASE Rename
  <2>1. /\ UNCHANGED <<journal, before, edits, copies, backups>> /\ journal # NoJournal
        /\ before[current] # Absent => backups[current] # Absent
        /\ \A x \in Paths : files'[x] = files[x] \/ x = current
    BY <1>0, <1>5 DEF Rename, Swept, InHand, Manifest
  <2> QED
    BY <1>0, <1>1, <2>1 DEF EditsHeld
<1>6. CASE MarkApplied
  <2>1. current \in Paths /\ journal \in Journal
    BY <1>6, <1>0 DEF MarkApplied, Underway, Applying, Pending, PlanMeans, Swept
  <2>2. journal' # NoJournal /\ journal # NoJournal
    BY <1>6, <2>1, Marked, JournalFields
  <2> QED
    BY <1>1, <1>6, <2>2 DEF EditsHeld, MarkApplied
<1>7. ASSUME NEW p \in Paths, PreserveConflict(p)
      PROVE  EditsHeld'
  <2>1. /\ UNCHANGED <<journal, before, edits, files>> /\ journal # NoJournal
        /\ backups' = [backups EXCEPT ![p] = Absent] /\ backups[p] # Absent
        /\ copies' = copies \cup {<<p, backups[p]>>}
    BY <1>7 DEF PreserveConflict, Preserved, Swept
  <2>2. PICK b : b = backups[p]
    OBVIOUS
  <2>3. Permanent(p, b)'
    BY <2>1, <2>2 DEF Permanent
  <2> QED
    BY <1>0, <1>1, <2>1, <2>2, <2>3 DEF EditsHeld, Manifest
<1>8. CASE RemoveRecovery
  <2>1. /\ UNCHANGED <<history, journal, before, edits, files, copies>> /\ journal # NoJournal
        /\ backups' = NoFiles /\ Preserved = {} /\ journal \in Journal
    BY <1>0, <1>8 DEF RemoveRecovery, NoBackups, NothingToKeep, Swept
  <2>2. \A x \in Paths : before[x] # Absent /\ backups[x] # Absent => Permanent(x, before[x])
    BY <2>1, BaseIsPermanent
  <2> QED
    BY <1>0, <1>1, <2>1, <2>2 DEF EditsHeld, NoFiles
<1>9. CASE ClearJournal
  <2>1. UNCHANGED <<edits, files, backups, copies>> /\ backups = NoFiles /\ journal' = NoJournal
    BY <1>9 DEF ClearJournal, Swept
  <2> QED
    BY <1>0, <1>1, <2>1 DEF EditsHeld, NoFiles
<1>10. ASSUME NEW p \in Paths, Restore(p)
       PROVE  EditsHeld'
  <2>1. /\ UNCHANGED <<journal, before, edits, copies>> /\ journal # NoJournal
        /\ Operations[p].existed <=> before[p] # Absent
        /\ backups' = [backups EXCEPT ![p] = Absent]
        /\ files' = IF backups[p] # Absent \/ ~Operations[p].existed
                      THEN [files EXCEPT ![p] = backups[p]] ELSE files
    BY <1>10 DEF Restore, Swept, PlanMeans, Undoing
  <2>2. \A x \in Paths \ {p} : files'[x] = files[x] /\ backups'[x] = backups[x]
    BY <1>0, <2>1 DEF Manifest
  <2>3. /\ backups'[p] = Absent
        /\ backups[p] # Absent => files'[p] = backups[p]
        /\ backups[p] = Absent /\ before[p] # Absent => files'[p] = files[p]
    BY <1>0, <2>1 DEF Manifest
  <2> QED
    BY <1>0, <1>1, <2>1, <2>2, <2>3 DEF EditsHeld
<1>11. CASE \/ Check \/ WriteState \/ EndPreserve \/ RecoverAtStart \/ Recover
            \/ WriteRecoveryState \/ Fail \/ Crash \/ (\E p \in Paths : SkipBackup(p))
  BY <1>2, <1>11 DEF SkipBackup, Check, WriteState, EndPreserve, RecoverAtStart, Recover,
     WriteRecoveryState, Fail, Crash
<1>12. CASE (\E m \in Remote : RemoteCommit(m)) \/ Sync \/ UseLocal \/ UNCHANGED vars
  BY <1>2, <1>12 DEF RemoteCommit, Sync, UseLocal, PublishFiles, vars
<1>13. ASSUME NEW p \in Paths, NEW c \in File, UserEdit(p, c)
       PROVE  EditsHeld'
  <2> SUFFICES ASSUME NEW e \in edits', e.during = "no journal"
               PROVE  \/ Permanent(e.path, e.content)'
                      \/ journal = NoJournal /\ files'[e.path] = e.content
                      \/ /\ journal # NoJournal /\ e.content = before[e.path]
                         /\ \/ backups[e.path] = e.content
                            \/ backups[e.path] = Absent /\ files'[e.path] = e.content
    BY <1>13, UserLeaves DEF EditsHeld
  <2>1. files' = [files EXCEPT ![p] = c] /\ UNCHANGED copies
    BY <1>13, UserLeaves
  <2>2. CASE e \in edits /\ (e.path # p \/ e.content # files[p])
    BY <1>0, <1>1, <2>1, <2>2 DEF EditsHeld, Manifest
  <2>3. CASE e.path = p /\ e.content = c /\ journal = NoJournal
    BY <1>0, <2>1, <2>3 DEF Manifest
  <2>4. \/ e \in edits /\ (e.path # p \/ e.content # files[p])
        \/ e.path = p /\ e.content = c /\ journal = NoJournal
    <3>1. \/ e \in edits /\ (e.path # p \/ e.content # files[p])
          \/ /\ e \in Edit /\ e.path = p /\ e.content = c
             /\ e.during = "no journal" => journal = NoJournal
      BY <1>13, WhatIsEdited, Zenon
    <3> QED
      BY <3>1, Zenon
  <2> QED
    BY <2>2, <2>3, <2>4
<1> QED
  BY <1>3, <1>4, <1>5, <1>6, <1>7, <1>8, <1>9, <1>10, <1>11, <1>12, <1>13
     DEF Next, Command, Materialize, RecoveryStep

\* The invariant holds initially,
LEMMA Start == Init => Inv
<1> SUFFICES ASSUME Init PROVE Inv
  OBVIOUS
<1>0. /\ history = <<>> /\ files \in Local /\ backups = NoFiles /\ copies = {}
      /\ state = [version |-> 0, base |-> NoFiles, status |-> "unmaterialized"]
      /\ journal = NoJournal /\ pc = "idle" /\ current = NoPath /\ todo = {}
      /\ touched = Paths /\ before = files /\ edited = 0 /\ faults = 0
  BY Zenon DEF Init
<1>1. /\ MaxVersion \in Nat /\ MaxEdits \in Nat /\ MaxFaults \in Nat
      /\ NoFiles \in Manifest /\ files \in Manifest
  BY <1>0, BoundsAssumption, ManifestAssumption DEF NoFiles, Manifest, File
<1>2. ASSUME NEW e \in edits
      PROVE  e \in Edit
  <2>1. edits = {[path |-> p, content |-> files[p], during |-> "no journal"] :
                   p \in {q \in Paths : files[q] # Absent}}
    BY Zenon DEF Init
  <2>2. PICK p \in Paths : /\ files[p] # Absent
                           /\ e = [path |-> p, content |-> files[p], during |-> "no journal"]
    BY <1>2, <2>1
  <2>3. files[p] \in Contents
    BY <1>1, <2>2 DEF Manifest, File
  <2> QED
    BY <2>2, <2>3 DEF Edit
<1>3. state \in State
  BY <1>0, <1>1 DEF State
<1>4. TypeOK
  BY <1>0, <1>1, <1>2, <1>3 DEF TypeOK
<1>5. /\ Recorded /\ Swept /\ PlanMeans /\ LeftAlone /\ Underway /\ InHand /\ CanUndo /\ Undoing
      /\ NothingToKeep
  BY <1>0 DEF Recorded, VersionOf, Swept, PlanMeans, LeftAlone, Under, Underway, Applying, InHand,
     CanUndo, Undoing, NothingToKeep
<1>6. EditsHeld
  <2>1. ASSUME NEW e \in edits
        PROVE  files[e.path] = e.content
    <3>1. edits = {[path |-> p, content |-> files[p], during |-> "no journal"] :
                     p \in {q \in Paths : files[q] # Absent}}
      BY Zenon DEF Init
    <3>2. PICK p \in Paths : e = [path |-> p, content |-> files[p], during |-> "no journal"]
      BY <2>1, <3>1
    <3> QED
      BY <3>2
  <2> QED
    BY <1>0, <2>1 DEF EditsHeld, Under
<1> QED
  BY <1>4, <1>5, <1>6 DEF Inv

\* is inductive,
LEMMA Inductive == Inv /\ [Next]_vars => Inv'
  BY TypeStep, RecordedStep, SweptStep, PlanStep, LeftStep, UnderwayStep, UndoStep, NothingStep,
     EditsStep DEF Inv

\* and so holds in every reachable state.
LEMMA Invariance == Spec => []Inv
  BY Start, Inductive, PTL DEF Spec

\* Type correctness of the files, the recovery directory, the state, the
\* journal and the running command.
THEOREM TypeCorrectness == Spec => []TypeOK
<1>1. Inv => TypeOK
  BY DEF Inv
<1> QED
  BY <1>1, Invariance, PTL

\* Files moved out of the way are found again: the recovery directory is empty
\* whenever no journal leads to it (materialization.ts), whatever failed.
THEOREM BackupsFound == Spec => []NoOrphanBackup
<1>1. Inv => NoOrphanBackup
  BY DEF Inv, Swept, Under, NoOrphanBackup
<1> QED
  BY <1>1, Invariance, PTL

\* A rollback restores every file the user left alone to what it was before
\* the materialization, however often it was interrupted and started again.
THEOREM RollbackComplete == Spec => []RollbackRestores
<1>1. Inv => RollbackRestores
  BY DEF Inv, Undoing, RollbackRestores
<1> QED
  BY <1>1, Invariance, PTL

\* What the user wrote while no journal was pending is never lost: it is in its
\* file, in the recovery directory, in a conflict copy or in a version.
THEOREM EditsSurvive == Spec => []NoQuietEditLost
<1>1. Inv => NoQuietEditLost
  BY DEF Inv, EditsHeld, Permanent, Kept, NoQuietEditLost
<1> QED
  BY <1>1, Invariance, PTL

\* The state is written clean only when every file the user left alone is the
\* base's, or was never managed and is as it was.
THEOREM CleanIsTrue == Spec => CleanMeansMaterialized
<1>1. Inv /\ [Next]_vars =>
        [state' # state /\ state'.status = "clean" =>
           \A p \in Paths \ touched' :
             \/ files'[p] = state'.base[p]
             \/ /\ {state.base[p], state'.base[p]} = {Absent}
                /\ files'[p] = before[p]]_vars
  <2> SUFFICES ASSUME Inv, [Next]_vars, state' # state, state'.status = "clean",
                      NEW p \in Paths \ touched'
               PROVE  \/ files'[p] = state'.base[p]
                      \/ /\ {state.base[p], state'.base[p]} = {Absent}
                         /\ files'[p] = before[p]
    OBVIOUS
  <2> USE DEF Inv, localVars, processVars, ghostVars
  <2>1. PublishFiles \/ WriteState
    <3>1. CASE WriteRecoveryState
      <4>1. journal.prior \in State
        BY <3>1, JournalFields DEF WriteRecoveryState, Swept, Under, TypeOK
      <4> QED
        BY <3>1, <4>1 DEF WriteRecoveryState, State
    <3>2. CASE Sync \/ UseLocal
      BY <3>2 DEF Sync, UseLocal, TypeOK, State
    <3>3. CASE Fail \/ Crash \/ (\E m \in Remote : RemoteCommit(m)) \/ UNCHANGED vars
      BY <3>3 DEF Fail, Crash, RemoteCommit, vars
    <3>4. CASE \E x \in Paths, c \in File : UserEdit(x, c)
      BY <3>4, UserLeaves
    <3>5. CASE \E v \in 0..Len(history) : Begin(v)
      BY <3>5 DEF Begin
    <3>6. CASE Command /\ ~WriteState /\ ~WriteRecoveryState
      BY <3>6 DEF Command, Materialize, RecoveryStep, Backup, SkipBackup, Check, Rename,
         MarkApplied, PreserveConflict, EndPreserve, RemoveRecovery, ClearJournal,
         RecoverAtStart, Recover, Restore
    <3> QED
      BY <3>1, <3>2, <3>3, <3>4, <3>5, <3>6 DEF Next, Command
  <2>2. CASE PublishFiles
    BY <2>2 DEF PublishFiles
  <2>3. CASE WriteState
    <3>1. /\ Under /\ Pending = {} /\ pc = "apply" /\ UNCHANGED <<files, touched>>
          /\ state'.base = journal.target /\ state = journal.prior
      BY <2>3 DEF WriteState, AllApplied, Swept, Underway, Applying
    <3>2. CASE p \in DOMAIN Operations
      BY <3>1, <3>2 DEF Pending, Underway, Applying
    <3>3. CASE p \notin DOMAIN Operations
      BY <3>1, <3>3 DEF PlanMeans, LeftAlone
    <3> QED
      BY <3>2, <3>3
  <2> QED
    BY <2>1, <2>2, <2>3
<1> QED
  BY <1>1, Invariance, PTL DEF Spec, CleanMeansMaterialized
=============================================================================
