------------------------- MODULE Materialization -------------------------
(***************************************************************************)
(* The local copy of a workspace on one machine: how a server version is   *)
(* written over the user's files (materializeWorkspace, run by connect and *)
(* by the conflict choice use_server), and how an interrupted run is       *)
(* recovered by the next command.                                          *)
(*                                                                         *)
(* A command holds the workspace's lock file from its first step here to   *)
(* its last, so at most one runs; the user edits the files meanwhile, and  *)
(* the process may stop, or a file operation fail, between any two steps.  *)
(* Paths are handled one at a time, and independently: the code's sorted   *)
(* order, and the reverse order of the rollback, are any order here.       *)
(***************************************************************************)
EXTENDS Integers, Sequences, FiniteSets

CONSTANTS
  Paths,
  Contents,
  Absent,       \* no file
  NoJournal,
  NoPath,
  Local,        \* what the directory may hold before the first command
  Remote,       \* what other devices may publish
  MaxVersion,   \* bound on the server's versions
  MaxEdits,     \* bound on the user's edits
  MaxFaults     \* bound on crashes and failed operations

ASSUME AbsentAssumption == Absent \notin Contents
ASSUME NoPathAssumption == NoPath \notin Paths
ASSUME ManifestAssumption ==
  Local \cup Remote \subseteq [Paths -> Contents \cup {Absent}]
ASSUME BoundsAssumption == {MaxVersion, MaxEdits, MaxFaults} \subseteq Nat

VARIABLES
  history,    \* the server's manifests, from sync_version 1 on
  files,      \* the managed files
  backups,    \* .ngapd/recovery/<transaction>: files moved out of the way
  copies,     \* conflict copies left for the user
  state,      \* state.json
  journal,    \* the materialization journal, or NoJournal
  pc,         \* of the running command
  current,    \* the path it is at
  todo,       \* paths it has still to restore
  touched,    \* history: paths edited since the files were last compared (all,
              \* once use_local took the files of a pending journal for the user's)
  before,     \* history: the files when the last materialization began
  edits,      \* history: what the user wrote, and when
  edited,     \* edits so far
  faults      \* crashes and failures so far

localVars   == <<files, backups, copies, state, journal>>
processVars == <<pc, current, todo>>
ghostVars   == <<touched, before, edits, edited, faults>>
vars        == <<history, localVars, processVars, ghostVars>>

File        == Contents \cup {Absent}
Manifest    == [Paths -> File]
NoFiles     == [p \in Paths |-> Absent]
VersionOf(v) == IF v = 0 THEN NoFiles ELSE history[v]

State       == [version : 0..MaxVersion, base : Manifest,
                status : {"unmaterialized", "clean", "conflict",
                          "materialization_failed"}]
Operation   == [existed : BOOLEAN, preserve : BOOLEAN]
Journal     == [version : 0..MaxVersion, target : Manifest, prior : State,
                operations : UNION {[ps -> Operation] : ps \in SUBSET Paths},
                applied : SUBSET Paths]
Edit        == [path : Paths, content : Contents,
                during : {"no journal", "pending journal", "command"}]

(* A journal file that is there can be told from one that is not. *)
ASSUME NoJournalAssumption == NoJournal \notin Journal

TypeOK ==
  /\ history \in Seq(Manifest)
  /\ Len(history) \in 0..MaxVersion
  /\ files \in Manifest
  /\ backups \in Manifest
  /\ copies \subseteq Paths \X Contents
  /\ state \in State
  /\ journal = NoJournal \/ journal \in Journal
  /\ pc \in {"idle", "apply", "check", "rename", "mark", "recover",
             "restore", "preserve", "sweep", "clear"}
  /\ current \in Paths \cup {NoPath}
  /\ todo \subseteq Paths
  /\ touched \subseteq Paths
  /\ before \in Manifest
  /\ edits \subseteq Edit
  /\ edited \in 0..MaxEdits
  /\ faults \in 0..MaxFaults

-----------------------------------------------------------------------------
(* A materialization.  It begins with no journal: the code recovers first, *)
(* and goes on only when the recovery did not write the state.             *)

(* planOperations: the managed paths, of the base or the target, whose file *)
(* is not already the target's, each remembered as it was.                  *)
Managed(target) == {p \in Paths : state.base[p] # Absent \/ target[p] # Absent}

ToChange(target) ==
  {p \in Managed(target) : target[p] = Absent \/ files[p] # target[p]}

PlanForManaged(target) ==
  [p \in ToChange(target) |->
     [existed  |-> files[p] # Absent,
      preserve |-> files[p] # Absent /\ state.base[p] # Absent /\ files[p] # state.base[p]]]

Plan(target) ==
  [p \in ToChange(target) |->
     [existed  |-> files[p] # Absent,
      preserve |-> files[p] # Absent /\ files[p] # state.base[p]]]

(* The version was read from the server before the lock was taken: it is   *)
(* one the server had, not always its newest.                              *)
Begin(v) ==
  /\ pc = "idle"
  /\ journal = NoJournal
  /\ journal' = [version |-> v, target |-> VersionOf(v), prior |-> state,
                 operations |-> Plan(VersionOf(v)), applied |-> {}]
  /\ pc' = "apply"
  /\ touched' = {}
  /\ before' = files
  /\ UNCHANGED <<history, files, backups, copies, state, current, todo,
                 edits, edited, faults>>

Operations == journal.operations
Pending == DOMAIN Operations \ journal.applied

(* The user removed the file since the plan: SCAN_RETRY. *)
Backup(p) ==
  /\ pc = "apply"
  /\ p \in Pending
  /\ Operations[p].existed
  /\ IF files[p] = Absent
       THEN /\ pc' = "recover"
            /\ UNCHANGED <<files, backups, current>>
       ELSE /\ backups' = [backups EXCEPT ![p] = files[p]]
            /\ files' = [files EXCEPT ![p] = Absent]
            /\ pc' = "check"
            /\ current' = p
  /\ UNCHANGED <<history, copies, state, journal, todo, ghostVars>>

SkipBackup(p) ==
  /\ pc = "apply"
  /\ p \in Pending
  /\ ~Operations[p].existed
  /\ pc' = "check"
  /\ current' = p
  /\ UNCHANGED <<history, localVars, todo, ghostVars>>

(* writeFileAtomically refuses to overwrite (STATE_CONFLICT), but looks     *)
(* before it renames.  A delete has nothing more to do than its backup.     *)
Check ==
  /\ pc = "check"
  /\ pc' = IF journal.target[current] = Absent THEN "mark"
           ELSE IF files[current] # Absent THEN "recover"
           ELSE "rename"
  /\ UNCHANGED <<history, localVars, current, todo, ghostVars>>

Rename ==
  /\ pc = "rename"
  /\ files' = [files EXCEPT ![current] = journal.target[current]]
  /\ pc' = "mark"
  /\ UNCHANGED <<history, backups, copies, state, journal, current, todo, ghostVars>>

MarkApplied ==
  /\ pc = "mark"
  /\ journal' = [journal EXCEPT !.applied = @ \cup {current}]
  /\ pc' = "apply"
  /\ current' = NoPath
  /\ UNCHANGED <<history, files, backups, copies, state, todo, ghostVars>>

AnyTime == TRUE
AllApplied == Pending = {}

WriteState ==
  /\ pc = "apply"
  /\ AllApplied
  /\ state' = [version |-> journal.version, base |-> journal.target, status |-> "clean"]
  /\ pc' = "preserve"
  /\ UNCHANGED <<history, files, backups, copies, journal, current, todo, ghostVars>>

-----------------------------------------------------------------------------
(* finishRecovery and clearJournal, which end both branches.               *)

Preserved == {p \in DOMAIN Operations : Operations[p].preserve /\ backups[p] # Absent}

PreserveConflict(p) ==
  /\ pc = "preserve"
  /\ p \in Preserved
  /\ copies' = copies \cup {<<p, backups[p]>>}
  /\ backups' = [backups EXCEPT ![p] = Absent]
  /\ UNCHANGED <<history, files, state, journal, processVars, ghostVars>>

EndPreserve ==
  /\ pc = "preserve"
  /\ Preserved = {}
  /\ pc' = "sweep"
  /\ UNCHANGED <<history, localVars, current, todo, ghostVars>>

LeaveBackups == backups
NoBackups == NoFiles

RemoveRecovery ==
  /\ pc = "sweep"
  /\ backups' = NoBackups
  /\ pc' = "clear"
  /\ UNCHANGED <<history, files, copies, state, journal, current, todo, ghostVars>>

ClearJournal ==
  /\ pc = "clear"
  /\ journal' = NoJournal
  /\ pc' = "idle"
  /\ current' = NoPath
  /\ UNCHANGED <<history, files, backups, copies, state, todo, ghostVars>>

-----------------------------------------------------------------------------
(* recoverMaterializationLocked: run by the next command that finds a       *)
(* journal, and by the failing materialization itself.                      *)

RecoverAtStart ==
  /\ pc = "idle"
  /\ journal # NoJournal
  /\ pc' = "recover"
  /\ UNCHANGED <<history, localVars, current, todo, ghostVars>>

Committed ==
  /\ state.version = journal.version
  /\ state.base = journal.target

AppliedOperations == journal.applied
AllOperations == DOMAIN Operations

Recover ==
  /\ pc = "recover"
  /\ IF Committed
       THEN pc' = "preserve" /\ todo' = {}
       ELSE pc' = "restore" /\ todo' = AllOperations
  /\ current' = NoPath
  /\ UNCHANGED <<history, localVars, ghostVars>>

(* A restore that insists on the backup it made, and one that does not. *)
RestoreOnce(p) ==
  /\ pc = "restore"
  /\ p \in todo
  /\ Operations[p].existed => backups[p] # Absent
  /\ files' = [files EXCEPT ![p] = backups[p]]
  /\ backups' = [backups EXCEPT ![p] = Absent]
  /\ todo' = todo \ {p}
  /\ UNCHANGED <<history, copies, state, journal, pc, current, ghostVars>>

Restore(p) ==
  /\ pc = "restore"
  /\ p \in todo
  /\ files' = IF backups[p] # Absent \/ ~Operations[p].existed
                THEN [files EXCEPT ![p] = backups[p]]
                ELSE files
  /\ backups' = [backups EXCEPT ![p] = Absent]
  /\ todo' = todo \ {p}
  /\ UNCHANGED <<history, copies, state, journal, pc, current, ghostVars>>

WriteRecoveryState ==
  /\ pc = "restore"
  /\ todo = {}
  /\ state' = [journal.prior EXCEPT !.status = "materialization_failed"]
  /\ pc' = "sweep"
  /\ UNCHANGED <<history, files, backups, copies, journal, current, todo, ghostVars>>

-----------------------------------------------------------------------------
(* Faults, the user, the server, and the commands that publish the files.   *)

(* A file operation of the materialization throws: its catch recovers. *)
Fail ==
  /\ faults < MaxFaults
  /\ faults' = faults + 1
  /\ pc \in {"apply", "check", "rename", "mark", "preserve", "sweep", "clear"}
  /\ pc' = "recover"
  /\ UNCHANGED <<history, localVars, current, todo, touched, before, edits, edited>>

(* The process stops, or its recovery throws; its lock file is then stale   *)
(* or removed.                                                              *)
Crash ==
  /\ faults < MaxFaults
  /\ faults' = faults + 1
  /\ pc # "idle"
  /\ pc' = "idle"
  /\ current' = NoPath
  /\ todo' = {}
  /\ UNCHANGED <<history, localVars, touched, before, edits, edited>>

UserEdit(p, c) ==
  /\ edited < MaxEdits
  /\ edited' = edited + 1
  /\ files[p] # c
  /\ files' = [files EXCEPT ![p] = c]
  /\ touched' = touched \cup {p}
  /\ edits' = {e \in edits : e.path # p \/ e.content # files[p]} \cup
       IF c = Absent THEN {}
       ELSE {[path |-> p, content |-> c,
              during |-> IF pc # "idle" THEN "command"
                         ELSE IF journal = NoJournal THEN "no journal"
                         ELSE "pending journal"]}
  /\ UNCHANGED <<history, backups, copies, state, journal, processVars, before, faults>>

(* Another device commits a version. *)
RemoteCommit(m) ==
  /\ Len(history) < MaxVersion
  /\ history' = Append(history, m)
  /\ UNCHANGED <<localVars, processVars, ghostVars>>

PublishFiles ==
  /\ Len(history) < MaxVersion
  /\ history' = Append(history, files)
  /\ state' = [version |-> Len(history) + 1, base |-> files, status |-> "clean"]
  /\ touched' = IF journal = NoJournal THEN {} ELSE Paths
  /\ UNCHANGED <<files, backups, copies, journal, processVars, before, edits, edited, faults>>

(* syncWorkspace; the command recovers first. *)
Sync ==
  /\ pc = "idle"
  /\ journal = NoJournal
  /\ files # state.base
  /\ \/ /\ state.version = Len(history)
        /\ PublishFiles
     \/ /\ state.version # Len(history)
        /\ state' = [state EXCEPT !.status = "conflict"]
        /\ UNCHANGED <<history, files, backups, copies, journal, processVars, ghostVars>>

(* useLocalWorkspace commits on the server's head; nothing is recovered.   *)
UseLocal ==
  /\ pc = "idle"
  /\ PublishFiles

-----------------------------------------------------------------------------
Init ==
  /\ history = <<>>
  /\ files \in Local
  /\ backups = NoFiles
  /\ copies = {}
  /\ state = [version |-> 0, base |-> NoFiles, status |-> "unmaterialized"]
  /\ journal = NoJournal
  /\ pc = "idle"
  /\ current = NoPath
  /\ todo = {}
  /\ touched = Paths
  /\ before = files
  /\ edits = {[path |-> p, content |-> files[p], during |-> "no journal"] :
                p \in {q \in Paths : files[q] # Absent}}
  /\ edited = 0
  /\ faults = 0

Materialize ==
  \/ \E p \in Paths : Backup(p) \/ SkipBackup(p)
  \/ Check
  \/ Rename
  \/ MarkApplied
  \/ WriteState
  \/ \E p \in Paths : PreserveConflict(p)
  \/ EndPreserve
  \/ RemoveRecovery
  \/ ClearJournal

RecoveryStep ==
  \/ RecoverAtStart
  \/ Recover
  \/ \E p \in Paths : Restore(p)
  \/ WriteRecoveryState

Command == Materialize \/ RecoveryStep

Next ==
  \/ \E v \in 0..Len(history) : Begin(v)
  \/ Command
  \/ Fail
  \/ Crash
  \/ \E p \in Paths, c \in File : UserEdit(p, c)
  \/ \E m \in Remote : RemoteCommit(m)
  \/ Sync
  \/ UseLocal

Spec == Init /\ [][Next]_vars

(* A command runs until it ends, and the user runs another one while a     *)
(* journal is pending; faults are bounded by MaxFaults.                    *)
FairSpec == Spec /\ WF_vars(Command)

-----------------------------------------------------------------------------
(* Correctness.                                                            *)

(* The state never claims more than the files hold (FR-030): when it is     *)
(* written as clean, every file the user left alone is the base manifest's  *)
(* (or one that was never managed, untouched), whatever was interrupted,     *)
(* failed or recovered before.                                              *)
CleanMeansMaterialized ==
  [][state' # state /\ state'.status = "clean" =>
       \A p \in Paths \ touched' :
         \/ files'[p] = state'.base[p]
         \/ /\ {state.base[p], state'.base[p]} = {Absent}
            /\ files'[p] = before[p]]_vars

(* A rollback restores: once it has gone through the operations, each file  *)
(* the user left alone is what it was before the materialization began,     *)
(* although it may have been interrupted at any step and started again.     *)
RollbackRestores ==
  pc = "restore" /\ todo = {} =>
    \A p \in Paths \ touched : files[p] = before[p]

(* Files moved out of the way can always be found again: the recovery       *)
(* directory is empty whenever no journal leads to it.                      *)
NoOrphanBackup == journal = NoJournal => backups = NoFiles

Kept(e) ==
  \/ e.content \in {files[e.path], backups[e.path]}
  \/ <<e.path, e.content>> \in copies
  \/ \E v \in 1..Len(history) : history[v][e.path] = e.content

(* What the user wrote while no materialization was under way is never lost *)
(* (FR-023): it is in its file, in the recovery directory, in a conflict    *)
(* copy, or in a version of the server.                                     *)
NoQuietEditLost == \A e \in edits : e.during = "no journal" => Kept(e)

(* A pending journal is always resolved, by completing it or by undoing it. *)
JournalIsResolved == journal # NoJournal ~> journal = NoJournal
=============================================================================
