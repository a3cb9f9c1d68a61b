------------------------------ MODULE Backups ------------------------------
(***************************************************************************)
(* Backups of the case register and of the watchlist base: the worker's    *)
(* bundle of the day, the operator's bundles, and their restoration        *)
(* (case_workspace.py, operational_backup.py, operations_worker.py,        *)
(* scripts/backup_workspace.py).                                           *)
(*                                                                         *)
(* A base is the number of its commits.  The register is one SQLite file   *)
(* and each of its events a transaction; copying it and copying the        *)
(* watchlist base are two copies with time between them.  A file is        *)
(* created exclusively and written afterwards, and a process may die       *)
(* between any two steps.                                                  *)
(***************************************************************************)
EXTENDS Naturals

CONSTANTS Processes,   \* the worker, the operator at the command line
          Files,       \* where bundles are written; the worker's file of the day is one
          Folders,     \* where bundles are restored
          Absent, Partial,
          MaxCommits   \* bound: events of the register

VARIABLES commits,  \* commits of the register
          lists,    \* commits of the watchlist base
          file,     \* per file: Absent, Partial or the bundle in it
          folder,   \* per folder: Absent or the copies restored into it
          job       \* per process: what it is doing

bundles == <<commits, lists, file, folder, job>>

Idle == [doing |-> "nothing"]
Commits == 0..MaxCommits
Bundles == [event : Commits, cases : Commits, lists : Commits]
(* the copies in a folder, each there or not yet *)
Restored == [cases : Commits \cup {Absent}, lists : Commits \cup {Absent}]

(* what is not there is no copy, no bundle and no folder *)
NamesAssumption ==
  /\ MaxCommits \in Nat
  /\ Absent \notin Commits \cup Bundles \cup Restored \cup {Partial}
  /\ Partial \notin Bundles

BackupsInit ==
  /\ commits = 0 /\ lists = 0
  /\ file = [f \in Files |-> Absent]
  /\ folder = [d \in Folders |-> Absent]
  /\ job = [p \in Processes |-> Idle]

Does(p, step) == job[p].doing = step
Now(p, j) == job' = [job EXCEPT ![p] = j]
Then(p, step) == Now(p, [job[p] EXCEPT !.doing = step])
Stop(p) == Now(p, Idle)

-----------------------------------------------------------------------------
(* somebody edits a case or a list meanwhile *)
Edit ==
  /\ \/ commits < MaxCommits /\ commits' = commits + 1 /\ UNCHANGED lists
     \/ lists < MaxCommits /\ lists' = lists + 1 /\ UNCHANGED commits
  /\ UNCHANGED <<file, folder, job>>

(* create_backup_bundle: the destination must be new; the worker skips the  *)
(* day whose file exists                                                    *)
Begin(p, f) ==
  /\ Does(p, "nothing") /\ file[f] = Absent
  /\ Now(p, [doing |-> "log", to |-> f, event |-> 0, cases |-> 0, lists |-> 0])
  /\ UNCHANGED <<commits, lists, file, folder>>

(* the register logs the backup in a transaction of its own, *)
LogBackup(p) ==
  /\ Does(p, "log") /\ commits < MaxCommits
  /\ commits' = commits + 1
  /\ Now(p, [job[p] EXCEPT !.doing = "copy", !.event = commits + 1])
  /\ UNCHANGED <<lists, file, folder>>

(* and is copied, and the copy checked, after it *)
CopyCases_AsOfTheEvent(p) ==
  /\ Does(p, "copy")
  /\ Now(p, [job[p] EXCEPT !.doing = "lists", !.cases = job[p].event - 1])
  /\ UNCHANGED <<commits, lists, file, folder>>
CopyCases(p) ==
  /\ Does(p, "copy")
  /\ Now(p, [job[p] EXCEPT !.doing = "lists", !.cases = commits])
  /\ UNCHANGED <<commits, lists, file, folder>>

CopyLists(p) ==
  /\ Does(p, "lists")
  /\ Now(p, [job[p] EXCEPT !.doing = "create", !.lists = lists])
  /\ UNCHANGED <<commits, lists, file, folder>>

(* open("xb"): whoever comes second gets FileExistsError *)
CreateFile_Truncates(p) ==
  /\ Does(p, "create")
  /\ file' = [file EXCEPT ![job[p].to] = Partial] /\ Then(p, "write")
  /\ UNCHANGED <<commits, lists, folder>>
CreateFile(p) ==
  /\ Does(p, "create")
  /\ IF file[job[p].to] = Absent
     THEN file' = [file EXCEPT ![job[p].to] = Partial] /\ Then(p, "write")
     ELSE Stop(p) /\ UNCHANGED file
  /\ UNCHANGED <<commits, lists, folder>>

WriteFile(p) ==
  /\ Does(p, "write")
  /\ file' = [file EXCEPT ![job[p].to] = [event |-> job[p].event, cases |-> job[p].cases, lists |-> job[p].lists]]
  /\ Stop(p)
  /\ UNCHANGED <<commits, lists, folder>>

(* verify_backup_bundle(restore_to=d): a partial file is not decrypted *)
Verify(p, f, d) ==
  /\ Does(p, "nothing") /\ file[f] \in Bundles
  /\ Now(p, [doing |-> "make", from |-> f, to |-> d])
  /\ UNCHANGED <<commits, lists, file, folder>>

MakeFolder(p) ==
  /\ Does(p, "make")
  /\ IF folder[job[p].to] = Absent
     THEN folder' = [folder EXCEPT ![job[p].to] = [cases |-> Absent, lists |-> Absent]] /\ Then(p, "first")
     ELSE Stop(p) /\ UNCHANGED folder
  /\ UNCHANGED <<commits, lists, file>>

RestoreCases(p) ==
  /\ Does(p, "first")
  /\ folder' = [folder EXCEPT ![job[p].to].cases = file[job[p].from].cases] /\ Then(p, "second")
  /\ UNCHANGED <<commits, lists, file>>

RestoreLists(p) ==
  /\ Does(p, "second")
  /\ folder' = [folder EXCEPT ![job[p].to].lists = file[job[p].from].lists] /\ Stop(p)
  /\ UNCHANGED <<commits, lists, file>>

Die(p) == ~Does(p, "nothing") /\ Stop(p) /\ UNCHANGED <<commits, lists, file, folder>>

BackupsNext ==
  \/ Edit
  \/ \E p \in Processes :
       \/ \E f \in Files : Begin(p, f) \/ (\E d \in Folders : Verify(p, f, d))
       \/ LogBackup(p) \/ CopyCases(p) \/ CopyLists(p) \/ CreateFile(p) \/ WriteFile(p)
       \/ MakeFolder(p) \/ RestoreCases(p) \/ RestoreLists(p) \/ Die(p)

BackupsSpec == BackupsInit /\ [][BackupsNext]_bundles

-----------------------------------------------------------------------------
(* A bundle holds the register with the event that announces it and all     *)
(* that was committed before: what was edited before the backup was asked   *)
(* for is never missing from it (case_workspace.py:598-603).                *)
BundlesHoldTheirEvent == \A f \in Files : file[f] \in Bundles => file[f].cases >= file[f].event

(* A finished bundle is never replaced, whoever else writes to the same     *)
(* destination, and a folder restored whole holds the two bases of one      *)
(* bundle (operational_backup.py:22-31, 59 and 96-100).                     *)
BundlesStay ==
  [][\A f \in Files : file[f] \in Bundles => file'[f] = file[f]]_bundles
RestoredWhole ==
  \A d \in Folders :
    (folder[d] # Absent /\ folder[d].lists # Absent)
      => \E f \in Files : /\ file[f] \in Bundles
                          /\ folder[d].cases = file[f].cases /\ folder[d].lists = file[f].lists

(* A bundle holds all that was committed before it was asked for, and a     *)
(* folder that was restored whole holds the two bases of one bundle.        *)
BundlesAreWhole == BundlesHoldTheirEvent /\ RestoredWhole
=============================================================================
