-------------------------- MODULE ReplayPublication --------------------------
(***************************************************************************)
(* Processes that replay one identity (source, config and executable       *)
(* hashes) into one output root: prepare_replay_run and publish_replay_run *)
(* of cpp/src/output/manifest.cpp and the command around them, run_replay  *)
(* of cpp/apps/itchlab/cli.cpp.                                            *)
(*                                                                         *)
(* The file system is the shared state: the lock directory of the          *)
(* identity, the staging directory <replay id>.partial and the final       *)
(* directory of each replay id.  Every file-system call is one step, so    *)
(* processes interleave between any two calls; a process may be killed     *)
(* between any two of them, and any call may fail but the removal of a     *)
(* lock directory that exists and the read of a marker or of a manifest    *)
(* that exists.  Runs of other identities touch none of these paths.       *)
(*                                                                         *)
(* Abstractions: a file is its name and the process that wrote it; an      *)
(* artefact is "open" until its writer is finalised; a replay id is the    *)
(* start time, picked by the clock, so two processes may draw the same.    *)
(***************************************************************************)
EXTENDS Naturals, FiniteSets

CONSTANTS
    Processes,   \* the replay commands that may run
    Ids,         \* replay ids (run_timestamp and identity prefix)
    NoProcess    \* creator of a lock that does not exist

ASSUME PublicationAssumption == NoProcess \notin Processes

Names == {"identity", "events.open", "events.partial", "events",
          "snapshots.open", "snapshots.partial", "snapshots",
          "manifest.partial", "manifest"}

File == [name : Names, by : Processes]

VARIABLES
    lock,      \* the process whose create_directory made the lock, or NoProcess
    partials,  \* replay ids whose staging directory <id>.partial exists
    staging,   \* the files in it
    finals,    \* replay ids whose final directory exists
    final,     \* the files in it
    altered,   \* final directories somebody outside changed afterwards
    stage,     \* the next call of each process
    id,        \* its replay id
    forced,    \* its --force-new-run
    unseen,    \* entries its directory iterator still has to return
    before     \* final directories that were there when it took the lock

dirs == <<partials, staging, finals, final, altered>>
commands == <<id, forced>>
scans == <<unseen, before>>
vars == <<lock, dirs, stage, commands, scans>>

Live == {"scan", "fresh", "create", "mark", "open", "replay", "check", "manifest",
         "unlock", "events", "snapshots", "seal", "unmark", "move",
         "published", "unwind"}
Ended == {"completed", "existing", "failed", "crashed"}

(* From the marker to the final rename the process owns a staging directory. *)
Staged == {"mark", "open", "replay", "check", "manifest", "unlock", "events",
           "snapshots", "seal", "unmark", "move"}

-----------------------------------------------------------------------------
(* The directory tree. *)

Entries == (partials \X {"partial"}) \cup (finals \X {"final"})

Holds(i, name) == i \in partials /\ \E f \in staging[i] : f.name = name

(* A final directory as publication leaves it: both artefacts and the       *)
(* manifest of one process and nothing else.                                *)
Whole(files) ==
    \E p \in Processes :
        files = [name : {"events", "snapshots", "manifest"}, by : {p}]

Renamed(i, old, new) ==
    {IF f.name = old THEN [f EXCEPT !.name = new] ELSE f : f \in staging[i]}

WithFiles(i, p, names) == [staging EXCEPT ![i] = @ \cup [name : names, by : {p}]]

-----------------------------------------------------------------------------
(* Steps of a process. *)

GoTo(p, next) == stage' = [stage EXCEPT ![p] = next]

(* fail_after_lock: the lock directory goes whoever made it; when it is     *)
(* already gone the process fails with another error.                       *)
FailKeepingLock(p) == GoTo(p, "failed") /\ UNCHANGED lock

FailAfterLock(p) == GoTo(p, "failed") /\ lock' = NoProcess

(* create_directory of the lock is atomic; a lock that exists is an error. *)
TakeLock(p) ==
    /\ stage[p] = "start"
    /\ \/ GoTo(p, "failed") /\ UNCHANGED <<lock, scans>>
       \/ /\ lock = NoProcess
          /\ lock' = p
          /\ GoTo(p, IF forced[p] THEN "fresh" ELSE "scan")
          /\ unseen' = [unseen EXCEPT ![p] = Entries]
          /\ before' = [before EXCEPT ![p] = finals]
    /\ UNCHANGED <<dirs, commands>>

(* What the scan does with an entry it reads: a marked partial directory    *)
(* and a completed one that fails verification are errors; a completed one  *)
(* whose manifest no longer shows the identity is passed over.              *)
Marked(e) == e[2] = "partial" /\ Holds(e[1], "identity")

Conflicts(e) == Marked(e) \/ (e[2] = "final" /\ e[1] \in altered)

Reusable(e) == e[2] = "final" /\ e[1] \in finals \ altered

(* The iterator returns every entry that stays, and those that come or go   *)
(* meanwhile as it likes.                                                   *)
ScannedPartly(p) == TRUE

Scanned(p) == unseen[p] \cap Entries = {}

ScanEntry(p) ==
    /\ stage[p] = "scan"
    /\ \E e \in unseen[p] \cup Entries :
          \/ /\ Conflicts(e)
             /\ FailAfterLock(p)
             /\ UNCHANGED unseen
          \/ /\ Reusable(e)
             /\ GoTo(p, IF lock # NoProcess THEN "existing" ELSE "failed")
             /\ lock' = NoProcess
             /\ UNCHANGED unseen
          \/ /\ ~Marked(e) /\ ~Reusable(e)
             /\ unseen' = [unseen EXCEPT ![p] = @ \ {e}]
             /\ UNCHANGED <<lock, stage>>
          \/ /\ e \notin Entries \/ e[2] = "final"     \* reading it fails or is cancelled
             /\ FailAfterLock(p)
             /\ UNCHANGED unseen
    /\ UNCHANGED <<dirs, commands, before>>

EndScan(p) ==
    /\ stage[p] = "scan"
    /\ Scanned(p)
    /\ GoTo(p, "fresh")
    /\ UNCHANGED <<lock, dirs, commands, scans>>

CheckFinalAbsent(p) ==
    /\ stage[p] = "fresh"
    /\ \/ FailAfterLock(p)
       \/ id[p] \notin finals /\ GoTo(p, "create") /\ UNCHANGED lock
    /\ UNCHANGED <<dirs, commands, scans>>

(* create_directory tells whether it made the directory. *)
CreatableAgain(i) == TRUE

Creatable(i) == i \notin partials

CreateStaging(p) ==
    /\ stage[p] = "create"
    /\ \/ /\ Creatable(id[p])
          /\ partials' = partials \cup {id[p]}
          /\ GoTo(p, "mark")
          /\ UNCHANGED lock
       \/ FailAfterLock(p) /\ UNCHANGED partials
    /\ UNCHANGED <<staging, finals, final, altered, commands, scans>>

(* A marker that cannot be written leaves the staging directory behind.     *)
WriteMarker(p) ==
    /\ stage[p] = "mark"
    /\ \/ staging' = WithFiles(id[p], p, {"identity"}) /\ GoTo(p, "open") /\ UNCHANGED lock
       \/ FailAfterLock(p) /\ UNCHANGED staging
    /\ UNCHANGED <<partials, finals, final, altered, commands, scans>>

(* From here on the RAII ReplayLockRelease of run_replay holds the lock     *)
(* path: an error or a cancellation closes the writers and unwinds.         *)
Fail(p) == GoTo(p, "unwind") /\ UNCHANGED staging

OpenWriters(p) ==
    /\ stage[p] = "open"
    /\ \/ /\ \A name \in {"events.open", "events.partial", "events",
                          "snapshots.open", "snapshots.partial", "snapshots"} :
                ~Holds(id[p], name)
          /\ staging' = WithFiles(id[p], p, {"events.open", "snapshots.open"})
          /\ GoTo(p, "replay")
       \/ Fail(p)
    /\ UNCHANGED <<lock, partials, finals, final, altered, commands, scans>>

(* The replay, the second hash of the source, and both finalise calls.      *)
ClosedEventsOnly(f) ==
    IF f.name = "events.open" THEN [f EXCEPT !.name = "events.partial"] ELSE f

Closed(f) ==
    CASE f.name = "events.open" -> [f EXCEPT !.name = "events.partial"]
      [] f.name = "snapshots.open" -> [f EXCEPT !.name = "snapshots.partial"]
      [] OTHER -> f

Finalised(i) == {Closed(f) : f \in staging[i]}

Replay(p) ==
    /\ stage[p] = "replay"
    /\ \/ /\ staging' = [staging EXCEPT ![id[p]] = Finalised(id[p])]
          /\ GoTo(p, "check")
       \/ Fail(p)
    /\ UNCHANGED <<lock, partials, finals, final, altered, commands, scans>>

(* publish_replay_run: "not fresh staged paths". *)
FreshTargets(p) ==
    /\ \A name \in {"events.partial", "snapshots.partial"} : Holds(id[p], name)
    /\ \A name \in {"manifest.partial", "events", "snapshots", "manifest"} :
          ~Holds(id[p], name)
    /\ id[p] \notin finals

CheckTargets(p) ==
    /\ stage[p] = "check"
    /\ \/ FreshTargets(p) /\ GoTo(p, "manifest")
       \/ GoTo(p, "unwind")
    /\ UNCHANGED <<lock, dirs, commands, scans>>

WriteManifest(p) ==
    /\ stage[p] = "manifest"
    /\ \/ /\ staging' = WithFiles(id[p], p, {"manifest.partial"})
          /\ GoTo(p, "unlock")
       \/ Fail(p)
    /\ UNCHANGED <<lock, partials, finals, final, altered, commands, scans>>

(* remove_exact_lock: a lock that is gone ends the publication. *)
RemoveLock(p) ==
    /\ stage[p] = "unlock"
    /\ GoTo(p, IF lock # NoProcess THEN "events" ELSE "unwind")
    /\ lock' = NoProcess
    /\ UNCHANGED <<dirs, commands, scans>>

(* rename of a staged file to its final basename. *)
RenameUnchecked(p, old, new, next) ==
    /\ GoTo(p, next)
    /\ \/ staging' = [staging EXCEPT ![id[p]] = Renamed(id[p], old, new)]
       \/ UNCHANGED staging

RenameStaged(p, old, new, next) ==
    \/ /\ Holds(id[p], old)
       /\ staging' = [staging EXCEPT ![id[p]] = Renamed(id[p], old, new)]
       /\ GoTo(p, next)
    \/ Fail(p)

RenameFile(p) ==
    /\ \/ stage[p] = "events" /\ RenameStaged(p, "events.partial", "events", "snapshots")
       \/ stage[p] = "snapshots" /\ RenameStaged(p, "snapshots.partial", "snapshots", "seal")
       \/ stage[p] = "seal" /\ RenameStaged(p, "manifest.partial", "manifest", "unmark")
    /\ UNCHANGED <<lock, partials, finals, final, altered, commands, scans>>

RemoveMarker(p) ==
    /\ stage[p] = "unmark"
    /\ \/ /\ staging' = [staging EXCEPT ![id[p]] = {f \in @ : f.name # "identity"}]
          /\ GoTo(p, "move")
       \/ Fail(p)
    /\ UNCHANGED <<lock, partials, finals, final, altered, commands, scans>>

(* rename of a directory fails on a target that is not empty.               *)
MoveToFinal(p) ==
    /\ stage[p] = "move"
    /\ \/ /\ id[p] \notin finals
          /\ finals' = finals \cup {id[p]}
          /\ final' = [final EXCEPT ![id[p]] = staging[id[p]]]
          /\ partials' = partials \ {id[p]}
          /\ staging' = [staging EXCEPT ![id[p]] = {}]
          /\ GoTo(p, "published")
       \/ Fail(p) /\ UNCHANGED <<partials, finals, final>>
    /\ UNCHANGED <<lock, altered, commands, scans>>

(* ~ReplayLockRelease: removes the lock path, whoever owns it by now.       *)
ReleaseLock(p) ==
    /\ stage[p] \in {"published", "unwind"}
    /\ lock' = NoProcess
    /\ GoTo(p, IF stage[p] = "published" THEN "completed" ELSE "failed")
    /\ UNCHANGED <<dirs, commands, scans>>

Crash(p) ==
    /\ stage[p] \in Live
    /\ GoTo(p, "crashed")
    /\ UNCHANGED <<lock, dirs, commands, scans>>

-----------------------------------------------------------------------------
(* The user. *)

(* Nothing removes a stale lock but the user, who sees that its process is  *)
(* gone; the same goes for an abandoned partial directory.                  *)
RemoveStaleLock ==
    /\ lock # NoProcess /\ stage[lock] \in Ended
    /\ lock' = NoProcess
    /\ UNCHANGED <<dirs, stage, commands, scans>>

RemovePartial(i) ==
    /\ i \in partials
    /\ \A p \in Processes : id[p] = i => stage[p] \notin Staged
    /\ partials' = partials \ {i}
    /\ staging' = [staging EXCEPT ![i] = {}]
    /\ UNCHANGED <<lock, finals, final, altered, stage, commands, scans>>

AlterFinal(i) ==
    /\ i \in finals
    /\ altered' = altered \cup {i}
    /\ UNCHANGED <<lock, partials, staging, finals, final, stage, commands, scans>>

Init ==
    /\ lock = NoProcess
    /\ partials = {} /\ finals = {} /\ altered = {}
    /\ staging = [i \in Ids |-> {}] /\ final = [i \in Ids |-> {}]
    /\ stage = [p \in Processes |-> "start"]
    /\ id \in [Processes -> Ids]
    /\ forced \in [Processes -> BOOLEAN]
    /\ unseen = [p \in Processes |-> {}]
    /\ before = [p \in Processes |-> {}]

Step(p) ==
    \/ TakeLock(p) \/ ScanEntry(p) \/ EndScan(p) \/ CheckFinalAbsent(p)
    \/ CreateStaging(p) \/ WriteMarker(p) \/ OpenWriters(p) \/ Replay(p)
    \/ CheckTargets(p) \/ WriteManifest(p) \/ RemoveLock(p) \/ RenameFile(p)
    \/ RemoveMarker(p) \/ MoveToFinal(p) \/ ReleaseLock(p)

Next ==
    \/ \E p \in Processes : Step(p) \/ Crash(p)
    \/ RemoveStaleLock
    \/ \E i \in Ids : RemovePartial(i) \/ AlterFinal(i)

Spec == Init /\ [][Next]_vars

-----------------------------------------------------------------------------
(* Properties. *)

TypeOK ==
    /\ lock \in Processes \cup {NoProcess}
    /\ partials \in SUBSET Ids /\ staging \in [Ids -> SUBSET File]
    /\ finals \in SUBSET Ids /\ final \in [Ids -> SUBSET File]
    /\ altered \in SUBSET finals
    /\ stage \in [Processes -> {"start"} \cup Live \cup Ended]
    /\ id \in [Processes -> Ids]
    /\ forced \in [Processes -> BOOLEAN]
    /\ unseen \in [Processes -> SUBSET (Ids \X {"partial", "final"})]
    /\ before \in [Processes -> SUBSET Ids]

(* The files a live process has in its staging directory before each call.  *)
StagedNames(at) ==
    CASE at = "mark" -> {}
      [] at = "open" -> {"identity"}
      [] at = "replay" -> {"identity", "events.open", "snapshots.open"}
      [] at \in {"check", "manifest"} -> {"identity", "events.partial", "snapshots.partial"}
      [] at \in {"unlock", "events"} ->
            {"identity", "events.partial", "snapshots.partial", "manifest.partial"}
      [] at = "snapshots" -> {"identity", "events", "snapshots.partial", "manifest.partial"}
      [] at = "seal" -> {"identity", "events", "snapshots", "manifest.partial"}
      [] at = "unmark" -> {"identity", "events", "snapshots", "manifest"}
      [] OTHER -> {"events", "snapshots", "manifest"}

StagedFiles(p) == [name : StagedNames(stage[p]), by : {p}]

(* Types, and the staging directory of a live process: it is there, it      *)
(* holds exactly the files of the calls made so far, and no other process   *)
(* or user has put, renamed or removed anything in it.                      *)
PublicationInv ==
    /\ TypeOK
    /\ \A i \in Ids : i \notin partials => staging[i] = {}
    /\ \A p \in Processes :
          stage[p] \in Staged => id[p] \in partials /\ staging[id[p]] = StagedFiles(p)

(* Whatever fails, is killed or runs beside it, a directory under its final *)
(* name holds both artefacts and the manifest of one process, no marker and *)
(* no staged file (publish_replay_run).                                     *)
PublishedIsWhole == \A i \in finals : Whole(final[i])

(* Two live processes never write one staging directory, although a second  *)
(* one can take the identity lock before the first is done.                 *)
SingleWriter ==
    \A p, q \in Processes :
        p # q /\ stage[p] \in Staged /\ stage[q] \in Staged => id[p] # id[q]

(* A replay that was not forced and got its own staging directory ran only  *)
(* because no completed replay existed when it took the lock but for those  *)
(* that somebody changed.                                                   *)
NoNeedlessReplay ==
    \A p \in Processes :
        ~forced[p] /\ stage[p] \in Staged \cup {"published", "completed"} => before[p] \subseteq altered

(* A lock outlives the process that made it only when that process was      *)
(* killed: every return path of prepare_replay_run and run_replay frees it. *)
StaleOnlyByCrash ==
    lock # NoProcess => stage[lock] \in Live \cup {"crashed"}

(* docs/05-api-contracts.md:207, "An existing conflicting partial directory *)
(* fails with ERR_RUN_EXISTS": no replay that was not forced gets a staging *)
(* directory while a partial directory of its identity holds any file.  The *)
(* code recognises one by its marker, which publication removes before the  *)
(* final rename.                                                            *)
PartialBlocksReplay ==
    [][\A p \in Processes :
          stage[p] = "create" /\ stage'[p] = "mark" /\ ~forced[p] =>
             \A i \in partials : staging[i] = {}]_vars

(* docs/05-api-contracts.md:989, "One process owns a run directory while    *)
(* its lock file exists": a process inside its run finds the lock it took   *)
(* until it drops it itself.  The destructor of an earlier run removes the  *)
(* lock path whoever owns it.                                               *)
OwnerKeepsLock ==
    \A p \in Processes :
        stage[p] \in {"mark", "open", "replay", "check", "manifest", "unlock"} => lock = p
=============================================================================
